---- MODULE Spec2Model ----
(***************************************************************************)
(* Log analysis engine of src/log_analyzer.py:                             *)
(*   - LogTemplateExtractor.extract_template (five ordered re.sub passes), *)
(*   - StreamingLogAnalyzer.calculate_baseline_stats / _process_record,    *)
(*   - StreamingLogAnalyzer._check_record_for_anomaly (Z-score),           *)
(*   - StreamingLogAnalyzer._check_isolation_forest_anomaly and the way    *)
(*     detect_anomalies combines the two detectors per record.             *)
(*   - StreamingLogAnalyzer.detect_anomalies: session grouping, the loop   *)
(*     over the records and the context attached to each anomaly,          *)
(*   - IsolationForestAnalyzer (train_on_baseline, save_model, load_model) *)
(*     and save_baseline_stats / load_baseline_stats.                      *)
(*                                                                         *)
(* A message is a sequence of one-character strings, so that the regular   *)
(* expressions are modelled by what they match, character by character.    *)
(* Durations are naturals; the statistics are exact (no rounding): a mean  *)
(* is kept as the fraction sum/count and a standard deviation by its       *)
(* square, the fraction (count*sumsq - sum^2)/count^2.                     *)
(***************************************************************************)
EXTENDS Integers, Sequences, FiniteSets, TLC

VARIABLES
    pc,                 \* position of the running scenario
    \* extract_template
    message,            \* the input message
    variant,            \* a second message, built beside `message`
    npieces,            \* number of pieces the messages were built from
    template,           \* extract_template(message)
    variant_template,   \* extract_template(variant)
    retemplate,         \* extract_template(template)
    \* calculate_baseline_stats
    template_durations, \* accumulator: template -> list of durations
    template_counts,    \* accumulator: template -> number of durations
    observed,           \* history of the input: template -> number of records
                        \* read so far whose message is non-empty
    nread,              \* number of records read from the training input
    stats,              \* the mapping calculate_baseline_stats returns
    \* detect_anomalies
    baseline_stats,     \* argument: the baseline mapping
    z_score_threshold,  \* argument
    use_isolation_forest, \* argument
    iso_forest_model,   \* argument: None or an IsolationForestAnalyzer
    record,             \* the record being processed
    anomaly,            \* the loop's local `anomaly` for this record
    log_file,           \* what is found at log_file_path
    records,            \* detect_anomalies: the parsed records of the input
    session_logs,       \* session id -> positions of its records, in order
    idx,                \* number of records the detection loop has handled
    context_buffer,     \* deque(maxlen=10): positions of the last records
    anomalies,          \* the list detect_anomalies returns
    iso_outputs,        \* what the fitted forest answers for a template
    \* model and baseline persistence
    analyzers,          \* the IsolationForestAnalyzer objects
    files,              \* path -> content of the file, None when absent
    prev_op,         \* history: the operation applied before last_op
    loaded,             \* what the last load_baseline_stats returned
    last_op,            \* the last operation applied
    nops,               \* number of operations applied
    \* CommanderAgent (src/src/autonomous_first_responder.py)
    tasks,              \* handle_alert coroutine -> its position and alert
    investigations,     \* the Investigation object each coroutine created
    active_investigations, \* self.active_investigations: alert id -> object
    acts,               \* act's locals: actions to execute, executed_actions
    reports,            \* what each handle_alert returned
    \* telemetry detector (src/telemetry/detector.py)
    WINDOW,             \* deque(maxlen=3) of latencies
    returned,           \* what the last detect_incident call returned
    submitted,          \* history: the metrics submitted and the resets
    ncalls              \* number of calls made

template_vars ==
    <<message, variant, npieces, template, variant_template, retemplate>>

baseline_vars == <<template_durations, template_counts, observed, nread, stats>>

detect_vars ==
    <<baseline_stats, z_score_threshold, use_isolation_forest,
      iso_forest_model, anomaly>>

stream_vars ==
    <<log_file, records, session_logs, idx, context_buffer, anomalies,
      iso_outputs>>

store_vars == <<analyzers, files, prev_op, loaded, last_op, nops>>

agent_vars ==
    <<tasks, investigations, active_investigations, acts, reports>>

window_vars == <<WINDOW, returned, submitted, ncalls>>

other_vars == <<agent_vars, window_vars>>

vars ==
    <<pc, template_vars, baseline_vars, detect_vars, record, stream_vars,
      store_vars, other_vars>>

\* Python's None
None == [none |-> TRUE]

\* an empty dict (the function with the empty domain)
EmptyDict == <<>>

(***************************************************************************)
(* Characters and character classes of Python's re (str patterns).         *)
(***************************************************************************)
Digits == {"0", "1", "2", "3", "4", "5", "6", "7", "8", "9"}

LowerHex == {"a", "b", "c", "d", "e", "f"}

UpperHex == {"A", "B", "C", "D", "E", "F"}

Letters ==
    {"a", "b", "c", "d", "e", "f", "g", "h", "i", "j", "k", "l", "m",
     "n", "o", "p", "q", "r", "s", "t", "u", "v", "w", "x", "y", "z",
     "A", "B", "C", "D", "E", "F", "G", "H", "I", "J", "K", "L", "M",
     "N", "O", "P", "Q", "R", "S", "T", "U", "V", "W", "X", "Y", "Z"}

\* \d
IsDigit(c) == c \in Digits

\* [0-9a-f] under re.IGNORECASE, and [0-9a-fA-F]
IsHex(c) == c \in Digits \cup LowerHex \cup UpperHex

\* \w
IsWord(c) == c \in Digits \cup Letters \cup {"_"}

\* s[i] belongs to class Cls (false outside the string)
At(s, i, c) == i >= 1 /\ i <= Len(s) /\ s[i] = c

DigitAt(s, i) == i >= 1 /\ i <= Len(s) /\ IsDigit(s[i])

HexAt(s, i) == i >= 1 /\ i <= Len(s) /\ IsHex(s[i])

WordAt(s, i) == i >= 1 /\ i <= Len(s) /\ IsWord(s[i])

\* \b holds between s[i-1] and s[i]
WordBoundary(s, i) == WordAt(s, i - 1) # WordAt(s, i)

\* every position of i .. i+n-1 holds a digit / a hex digit
DigitsAt(s, i, n) == \A k \in i .. (i + n - 1) : DigitAt(s, k)

HexsAt(s, i, n) == \A k \in i .. (i + n - 1) : HexAt(s, k)

SetMax(S) == CHOOSE x \in S : \A y \in S : y <= x

SetMin(S) == CHOOSE x \in S : \A y \in S : x <= y

\* length of the longest run of digits / hex digits that starts at s[i]
DigitRun(s, i) == SetMin({k \in 0 .. Len(s) : ~DigitAt(s, i + k)})

HexRun(s, i) == SetMin({k \in 0 .. Len(s) : ~HexAt(s, i + k)})

(***************************************************************************)
(* The five patterns: MatchX(s, i) is the length of the match of pattern X *)
(* that starts at s[i], 0 when there is none (no pattern matches the empty *)
(* string).                                                                *)
(***************************************************************************)

\* the faulty pattern r'\b\d+': the closing \b is left out
MatchNumNoClosingBoundary(s, i) ==
    IF ~(DigitAt(s, i) /\ WordBoundary(s, i)) THEN 0 ELSE DigitRun(s, i)

\* r'\b\d+\b': \d+ is greedy and backtracks to a shorter run
MatchNum(s, i) ==
    IF ~(DigitAt(s, i) /\ WordBoundary(s, i)) THEN 0
    ELSE LET ends == {k \in 1 .. DigitRun(s, i) : WordBoundary(s, i + k)}
         IN  IF ends = {} THEN 0 ELSE SetMax(ends)

\* r'[0-9a-f]{8}-[0-9a-f]{4}-[0-9a-f]{4}-[0-9a-f]{4}-[0-9a-f]{12}', IGNORECASE
MatchUuid(s, i) ==
    IF /\ HexsAt(s, i, 8) /\ At(s, i + 8, "-")
       /\ HexsAt(s, i + 9, 4) /\ At(s, i + 13, "-")
       /\ HexsAt(s, i + 14, 4) /\ At(s, i + 18, "-")
       /\ HexsAt(s, i + 19, 4) /\ At(s, i + 23, "-")
       /\ HexsAt(s, i + 24, 12)
    THEN 36 ELSE 0

\* r'\d{4}-\d{2}-\d{2}T\d{2}:\d{2}:\d{2}'
MatchTimestamp(s, i) ==
    IF /\ DigitsAt(s, i, 4) /\ At(s, i + 4, "-")
       /\ DigitsAt(s, i + 5, 2) /\ At(s, i + 7, "-")
       /\ DigitsAt(s, i + 8, 2) /\ At(s, i + 10, "T")
       /\ DigitsAt(s, i + 11, 2) /\ At(s, i + 13, ":")
       /\ DigitsAt(s, i + 14, 2) /\ At(s, i + 16, ":")
       /\ DigitsAt(s, i + 17, 2)
    THEN 19 ELSE 0

\* r'\b\d{1,3}\.\d{1,3}\.\d{1,3}\.\d{1,3}\b': the lengths of the four groups
\* that give a match; each \d{1,3} is greedy, so the first group is the
\* longest possible, then the second, and so on
IpGroups(s, i) ==
    {g \in (1 .. 3) \X (1 .. 3) \X (1 .. 3) \X (1 .. 3) :
        LET p2 == i + g[1] + 1
            p3 == p2 + g[2] + 1
            p4 == p3 + g[3] + 1
        IN  /\ DigitsAt(s, i, g[1]) /\ At(s, p2 - 1, ".")
            /\ DigitsAt(s, p2, g[2]) /\ At(s, p3 - 1, ".")
            /\ DigitsAt(s, p3, g[3]) /\ At(s, p4 - 1, ".")
            /\ DigitsAt(s, p4, g[4]) /\ WordBoundary(s, p4 + g[4])}

GreedyFirst(g, h) ==
    \/ g[1] > h[1]
    \/ g[1] = h[1] /\ g[2] > h[2]
    \/ g[1] = h[1] /\ g[2] = h[2] /\ g[3] > h[3]
    \/ g[1] = h[1] /\ g[2] = h[2] /\ g[3] = h[3] /\ g[4] >= h[4]

MatchIp(s, i) ==
    IF ~(DigitAt(s, i) /\ WordBoundary(s, i)) THEN 0
    ELSE LET G == IpGroups(s, i)
         IN  IF G = {} THEN 0
             ELSE LET g == CHOOSE x \in G : \A y \in G : GreedyFirst(x, y)
                  IN  g[1] + g[2] + g[3] + g[4] + 3

\* r'0x[0-9a-fA-F]+'
MatchHex(s, i) ==
    IF At(s, i, "0") /\ At(s, i + 1, "x") /\ HexAt(s, i + 2)
    THEN 2 + HexRun(s, i + 2) ELSE 0

(***************************************************************************)
(* The placeholders, as the characters re.sub writes.                      *)
(***************************************************************************)
NumToken == <<"{", "n", "u", "m", "}">>

UuidToken == <<"{", "u", "u", "i", "d", "}">>

TimestampToken == <<"{", "t", "i", "m", "e", "s", "t", "a", "m", "p", "}">>

IpToken == <<"{", "i", "p", "}">>

HexToken == <<"{", "h", "e", "x", "}">>

(***************************************************************************)
(* re.sub(pattern, repl, s): the string is scanned from the left; the      *)
(* leftmost match at or after the scan position is replaced and the scan   *)
(* goes on after it; every character outside a match is kept. P is the set *)
(* of the positions of s where the pattern matches.                        *)
(***************************************************************************)
RECURSIVE SubNumFrom(_, _, _)
SubNumFrom(s, P, i) ==
    LET later == {j \in P : j >= i}
    IN  IF later = {} THEN SubSeq(s, i, Len(s))
        ELSE LET j == SetMin(later)
             IN  SubSeq(s, i, j - 1) \o NumToken
                     \o SubNumFrom(s, P, j + MatchNum(s, j))

SubNum(s) == SubNumFrom(s, {j \in 1 .. Len(s) : MatchNum(s, j) > 0}, 1)

RECURSIVE SubUuidFrom(_, _, _)
SubUuidFrom(s, P, i) ==
    LET later == {j \in P : j >= i}
    IN  IF later = {} THEN SubSeq(s, i, Len(s))
        ELSE LET j == SetMin(later)
             IN  SubSeq(s, i, j - 1) \o UuidToken
                     \o SubUuidFrom(s, P, j + MatchUuid(s, j))

SubUuid(s) == SubUuidFrom(s, {j \in 1 .. Len(s) : MatchUuid(s, j) > 0}, 1)

RECURSIVE SubTimestampFrom(_, _, _)
SubTimestampFrom(s, P, i) ==
    LET later == {j \in P : j >= i}
    IN  IF later = {} THEN SubSeq(s, i, Len(s))
        ELSE LET j == SetMin(later)
             IN  SubSeq(s, i, j - 1) \o TimestampToken
                     \o SubTimestampFrom(s, P, j + MatchTimestamp(s, j))

SubTimestamp(s) == SubTimestampFrom(s, {j \in 1 .. Len(s) : MatchTimestamp(s, j) > 0}, 1)

RECURSIVE SubIpFrom(_, _, _)
SubIpFrom(s, P, i) ==
    LET later == {j \in P : j >= i}
    IN  IF later = {} THEN SubSeq(s, i, Len(s))
        ELSE LET j == SetMin(later)
             IN  SubSeq(s, i, j - 1) \o IpToken
                     \o SubIpFrom(s, P, j + MatchIp(s, j))

SubIp(s) == SubIpFrom(s, {j \in 1 .. Len(s) : MatchIp(s, j) > 0}, 1)

RECURSIVE SubHexFrom(_, _, _)
SubHexFrom(s, P, i) ==
    LET later == {j \in P : j >= i}
    IN  IF later = {} THEN SubSeq(s, i, Len(s))
        ELSE LET j == SetMin(later)
             IN  SubSeq(s, i, j - 1) \o HexToken
                     \o SubHexFrom(s, P, j + MatchHex(s, j))

SubHex(s) == SubHexFrom(s, {j \in 1 .. Len(s) : MatchHex(s, j) > 0}, 1)

\* LogTemplateExtractor.extract_template: numbers, UUIDs, timestamps, IP
\* addresses, hex values, in this order
extract_template(m) == SubHex(SubIp(SubTimestamp(SubUuid(SubNum(m)))))

(***************************************************************************)
(* Messages: a message is the concatenation of at most MaxPieces pieces.   *)
(***************************************************************************)
MaxPieces == 3

PieceUser == <<"U", "s", "e", "r", " ">>

Piece123 == <<"1", "2", "3">>

Piece456 == <<"4", "5", "6">>

PieceLoggedIn == <<" ", "l", "o", "g", "g", "e", "d", " ", "i", "n">>

\* a UUID no group of which is all decimal digits, in mixed case
PieceUuid ==
    <<"a", "1", "b", "2", "c", "3", "d", "4", "-", "E", "5", "F", "6", "-",
      "a", "7", "b", "8", "-", "c", "9", "d", "0", "-", "e", "1", "f", "2",
      "a", "3", "b", "4", "c", "5", "d", "6">>

\* a UUID whose second group is all decimal digits
PieceUuidDigits ==
    <<"a", "1", "b", "2", "c", "3", "d", "4", "-", "1", "2", "3", "4", "-",
      "a", "7", "b", "8", "-", "c", "9", "d", "0", "-", "e", "1", "f", "2",
      "a", "3", "b", "4", "c", "5", "d", "6">>

PieceTimestamp ==
    <<"2", "0", "2", "4", "-", "0", "1", "-", "1", "5", "T", "1", "0", ":",
      "3", "0", ":", "0", "0">>

PieceIp == <<"1", "0", ".", "0", ".", "0", ".", "1">>

PieceHex == <<"0", "x", "1", "F">>

NumberPieces == {Piece123, Piece456}

\* the pieces of `message`; the variant may hold another number piece
Pieces ==
    {PieceUser, Piece123, PieceLoggedIn, PieceUuid, PieceUuidDigits,
     PieceTimestamp, PieceIp, PieceHex}

(***************************************************************************)
(* Template extraction scenario: a message and a variant of it (the same   *)
(* pieces, a number piece possibly replaced by another number) are built,  *)
(* then extract_template is applied to both, and once more to the result.  *)
(***************************************************************************)
TemplateIdle ==
    /\ message = <<>>
    /\ variant = <<>>
    /\ npieces = 0
    /\ template = <<>>
    /\ variant_template = <<>>
    /\ retemplate = <<>>

BaselineIdle ==
    /\ template_durations = EmptyDict
    /\ template_counts = EmptyDict
    /\ observed = EmptyDict
    /\ nread = 0
    /\ stats = EmptyDict

DetectIdle ==
    /\ baseline_stats = EmptyDict
    /\ z_score_threshold = 0
    /\ use_isolation_forest = FALSE
    /\ iso_forest_model = None
    /\ anomaly = None

StreamIdle ==
    /\ log_file = "none"
    /\ records = <<>>
    /\ session_logs = EmptyDict
    /\ idx = 0
    /\ context_buffer = <<>>
    /\ anomalies = <<>>
    /\ iso_outputs = EmptyDict

StoreIdle ==
    /\ analyzers = EmptyDict
    /\ files = EmptyDict
    /\ prev_op = None
    /\ loaded = EmptyDict
    /\ last_op = None
    /\ nops = 0

AgentIdle ==
    /\ tasks = EmptyDict
    /\ investigations = EmptyDict
    /\ active_investigations = EmptyDict
    /\ acts = EmptyDict
    /\ reports = EmptyDict

WindowIdle ==
    /\ WINDOW = <<>>
    /\ returned = FALSE
    /\ submitted = <<>>
    /\ ncalls = 0

OtherIdle == AgentIdle /\ WindowIdle

InitTemplate ==
    /\ pc = "build"
    /\ TemplateIdle
    /\ BaselineIdle
    /\ DetectIdle
    /\ StreamIdle
    /\ StoreIdle
    /\ OtherIdle
    /\ record = None

AppendPiece(p, q) ==
    /\ pc = "build"
    /\ npieces < MaxPieces
    /\ message' = message \o p
    /\ variant' = variant \o q
    /\ npieces' = npieces + 1
    /\ UNCHANGED <<pc, template, variant_template, retemplate>>
    /\ UNCHANGED <<baseline_vars, detect_vars, record, stream_vars, store_vars, other_vars>>

\* template = LogTemplateExtractor.extract_template(message), and the same
\* call on the variant
ExtractTemplate ==
    /\ pc = "build"
    /\ template' = extract_template(message)
    /\ variant_template' = extract_template(variant)
    /\ pc' = "extracted"
    /\ UNCHANGED <<message, variant, npieces, retemplate>>
    /\ UNCHANGED <<baseline_vars, detect_vars, record, stream_vars, store_vars, other_vars>>

\* the extractor applied to its own output
ReExtractTemplate ==
    /\ pc = "extracted"
    /\ retemplate' = extract_template(template)
    /\ pc' = "reextracted"
    /\ UNCHANGED <<message, variant, npieces, template, variant_template>>
    /\ UNCHANGED <<baseline_vars, detect_vars, record, stream_vars, store_vars, other_vars>>

NextTemplate ==
    \/ \E p \in Pieces :
          \E q \in {p} \cup (IF p \in NumberPieces THEN NumberPieces ELSE {}) :
             AppendPiece(p, q)
    \/ ExtractTemplate
    \/ ReExtractTemplate

SpecTemplate == InitTemplate /\ [][NextTemplate]_vars

(***************************************************************************)
(* Records and dicts.                                                      *)
(***************************************************************************)

\* d.get(k, default), for a record of the stream or a dict
Get(d, k, default) == IF k \in DOMAIN d THEN d[k] ELSE default

\* d[k] = v
Put(d, k, v) == (k :> v) @@ d

\* the default field names of calculate_baseline_stats and detect_anomalies
duration_field == "duration_ms"

message_field == "message"

\* Python truthiness of a message (a string) and of a duration (a number)
TruthyMessage(m) == m # <<>>

TruthyDuration(d) == d # 0

(***************************************************************************)
(* Exact statistics of a non-empty list of naturals (numpy's mean, std,    *)
(* min, max, percentile without the rounding of floats).                   *)
(*   a mean or percentile is the fraction  num / den,                      *)
(*   a standard deviation is  sqrt(sq) / den.                              *)
(***************************************************************************)
RECURSIVE SeqSum(_)
SeqSum(s) == IF s = <<>> THEN 0 ELSE Head(s) + SeqSum(Tail(s))

RECURSIVE SeqSumSq(_)
SeqSumSq(s) == IF s = <<>> THEN 0 ELSE Head(s) * Head(s) + SeqSumSq(Tail(s))

SeqMin(s) == SetMin({s[i] : i \in 1 .. Len(s)})

SeqMax(s) == SetMax({s[i] : i \in 1 .. Len(s)})

\* np.mean
Mean(s) == [num |-> SeqSum(s), den |-> Len(s)]

\* np.std (population): sqrt(n * sum(x^2) - sum(x)^2) / n
Std(s) ==
    [sq |-> Len(s) * SeqSumSq(s) - SeqSum(s) * SeqSum(s), den |-> Len(s)]

\* np.percentile(s, q), linear interpolation between the closest ranks
Percentile(s, q) ==
    LET sorted == SortSeq(s, LAMBDA x, y : x < y)
        rank == (Len(s) - 1) * q
        lo == rank \div 100
        hi == IF lo + 1 < Len(s) THEN lo + 1 ELSE lo
    IN  [num |-> 100 * sorted[lo + 1]
                    + (rank - 100 * lo) * (sorted[hi + 1] - sorted[lo + 1]),
         den |-> 100]

(***************************************************************************)
(* StreamingLogAnalyzer.calculate_baseline_stats                           *)
(***************************************************************************)

\* minimum sample size
MinSamples == 5

\* the statistics of one template
TemplateStats(durations) ==
    [count |-> Len(durations),
     mean |-> Mean(durations),
     std_dev |-> Std(durations),
     min |-> SeqMin(durations),
     max |-> SeqMax(durations),
     p50 |-> Percentile(durations, 50),
     p95 |-> Percentile(durations, 95),
     p99 |-> Percentile(durations, 99)]

\* the loop that builds `stats` from the accumulator
calculate_stats(durations_by_template) ==
    [tpl \in {k \in DOMAIN durations_by_template :
                 Len(durations_by_template[k]) >= MinSamples}
        |-> TemplateStats(durations_by_template[tpl])]

\* _process_record: the accumulators after the record
process_record_durations(rec, acc) ==
    LET msg == Get(rec, message_field, <<>>)
        duration == Get(rec, duration_field, 0)
    IN  IF TruthyMessage(msg) /\ TruthyDuration(duration)
        THEN LET tpl == extract_template(msg)
             IN  Put(acc, tpl, Append(Get(acc, tpl, <<>>), duration))
        ELSE acc

process_record_counts(rec, counts) ==
    LET msg == Get(rec, message_field, <<>>)
        duration == Get(rec, duration_field, 0)
    IN  IF TruthyMessage(msg) /\ TruthyDuration(duration)
        THEN LET tpl == extract_template(msg)
             IN  Put(counts, tpl, Get(counts, tpl, 0) + 1)
        ELSE counts

(***************************************************************************)
(* Baseline scenario: the records of a training input are read one by one, *)
(* then the statistics are computed and returned.                          *)
(***************************************************************************)
MaxTrain == 6

MsgA1 == <<"a", " ", "1">>

MsgA2 == <<"a", " ", "2">>

MsgB == <<"b">>

TplA == <<"a", " ">> \o NumToken

TrainMessages == {MsgA1, MsgA2, MsgB, <<>>}

TrainDurations == {0, 90, 110}

\* a record has a message or not, and a duration or not
TrainRecords ==
    {[message |-> m, duration_ms |-> d] : m \in TrainMessages, d \in TrainDurations}
        \cup {[message |-> m] : m \in TrainMessages}
        \cup {[duration_ms |-> d] : d \in TrainDurations}

\* what is found at log_file_path: no file, a JSON array of records, or one
\* JSON document per line (the array parse fails, the lines are parsed)
LogFiles == {"missing", "array", "lines"}

\* lines that hold valid JSON but no object: a number, an array
NonObjects == {"5", "[1, 2]"}

InitBaseline ==
    /\ pc = "train"
    /\ StoreIdle
    /\ OtherIdle
    /\ TemplateIdle
    /\ BaselineIdle
    /\ DetectIdle
    /\ log_file \in LogFiles
    /\ records = <<>>
    /\ session_logs = EmptyDict
    /\ idx = 0
    /\ context_buffer = <<>>
    /\ anomalies = <<>>
    /\ iso_outputs = EmptyDict
    /\ record = None

\* what calculate_baseline_stats returns when open() raises FileNotFoundError
baseline_on_missing_file == [outcome |-> "return", value |-> EmptyDict]

\* except FileNotFoundError: return {}
BaselineFileNotFound ==
    /\ pc \in {"train", "open"}
    /\ log_file = "missing"
    /\ pc' = IF baseline_on_missing_file.outcome = "return"
             THEN "no_baseline" ELSE "raised"
    /\ stats' = baseline_on_missing_file.value
    /\ UNCHANGED <<template_durations, template_counts, observed, nread>>
    /\ UNCHANGED <<template_vars, detect_vars, record, stream_vars,
                   store_vars, other_vars>>

\* a line that json.loads rejects: except json.JSONDecodeError: continue
SkipLine ==
    /\ pc = "train"
    /\ log_file = "lines"
    /\ nread < MaxTrain
    /\ nread' = nread + 1
    /\ UNCHANGED <<pc, stats, template_durations, template_counts, observed>>
    /\ UNCHANGED <<template_vars, detect_vars, record, stream_vars,
                   store_vars, other_vars>>

\* an item, or a line, that holds valid JSON but no object: the value has no
\* .get, _process_record raises AttributeError and no handler catches it
ProcessNonObject(value) ==
    /\ pc = "train"
    /\ log_file \in {"array", "lines"}
    /\ nread < MaxTrain
    /\ nread' = nread + 1
    /\ record' = [json |-> value]
    /\ pc' = "raised"
    /\ UNCHANGED <<stats, template_durations, template_counts, observed>>
    /\ UNCHANGED <<template_vars, detect_vars, stream_vars, store_vars, other_vars>>

\* one iteration of the loop over the records of the input
ProcessRecord(rec) ==
    /\ pc = "train"
    /\ log_file \in {"array", "lines"}
    /\ nread < MaxTrain
    /\ record' = rec
    /\ nread' = nread + 1
    /\ template_durations' = process_record_durations(rec, template_durations)
    /\ template_counts' = process_record_counts(rec, template_counts)
    /\ observed' =
          LET msg == Get(rec, message_field, <<>>)
          IN  IF msg # <<>>
              THEN Put(observed, extract_template(msg),
                       Get(observed, extract_template(msg), 0) + 1)
              ELSE observed
    /\ UNCHANGED <<pc, stats, template_vars, detect_vars, stream_vars,
                   store_vars, other_vars>>

\* the input is exhausted: the statistics are computed and returned
ReturnStats ==
    /\ pc = "train"
    /\ log_file \in {"array", "lines"}
    /\ stats' = calculate_stats(template_durations)
    /\ pc' = "trained"
    /\ UNCHANGED <<template_durations, template_counts, observed, nread>>
    /\ UNCHANGED <<template_vars, detect_vars, record, stream_vars,
                   store_vars, other_vars>>

NextBaseline ==
    \/ BaselineFileNotFound
    \/ \E rec \in TrainRecords : ProcessRecord(rec)
    \/ SkipLine
    \/ \E value \in NonObjects : ProcessNonObject(value)
    \/ ReturnStats

SpecBaseline == InitBaseline /\ [][NextBaseline]_vars

(***************************************************************************)
(* Fallback scenario: the training input starts as a JSON array with one   *)
(* record per line and is cut off, or spoilt, after some records.  The     *)
(* array parse yields these records, then raises ijson.JSONError; the      *)
(* handler rewinds the file and parses it line by line.  The lines with    *)
(* the brackets and commas are rejected by json.loads and skipped; the     *)
(* lines with the records are parsed again.  `records` holds the records   *)
(* of the input and idx the number of them the line loop has parsed.       *)
(***************************************************************************)
\* number of records in the input before the array parse fails
MaxItems == 5

FallbackRecords ==
    {[message |-> MsgA1, duration_ms |-> 90],
     [message |-> MsgA2, duration_ms |-> 110],
     [message |-> MsgB, duration_ms |-> 90]}

InitFallback ==
    /\ pc = "array"
    /\ StoreIdle
    /\ OtherIdle
    /\ TemplateIdle
    /\ BaselineIdle
    /\ DetectIdle
    /\ log_file = "cut_array"
    /\ records = <<>>
    /\ session_logs = EmptyDict
    /\ idx = 0
    /\ context_buffer = <<>>
    /\ anomalies = <<>>
    /\ iso_outputs = EmptyDict
    /\ record = None

\* for record in ijson.items(f, 'item'): self._process_record(...)
YieldItem(rec) ==
    /\ pc = "array"
    /\ Len(records) < MaxItems
    /\ records' = Append(records, rec)
    /\ record' = rec
    /\ nread' = nread + 1
    /\ template_durations' = process_record_durations(rec, template_durations)
    /\ template_counts' = process_record_counts(rec, template_counts)
    /\ observed' = Put(observed, extract_template(rec[message_field]),
                       Get(observed, extract_template(rec[message_field]), 0)
                           + 1)
    /\ UNCHANGED <<pc, stats, log_file, session_logs, idx, context_buffer,
                   anomalies, iso_outputs, template_vars, detect_vars,
                   store_vars, other_vars>>

\* except ijson.JSONError: f.seek(0) -- template_durations and
\* template_counts keep what the array parse put into them
ArrayParseFails ==
    /\ pc = "array"
    /\ pc' = "lines"
    /\ idx' = 0
    /\ UNCHANGED <<baseline_vars, record, log_file, records, session_logs,
                   context_buffer, anomalies, iso_outputs, template_vars,
                   detect_vars, store_vars, other_vars>>

\* for line in f: record = json.loads(line); self._process_record(...)
ParseLine ==
    /\ pc = "lines"
    /\ idx < Len(records)
    /\ LET rec == records[idx + 1]
       IN  /\ record' = rec
           /\ template_durations' =
                 process_record_durations(rec, template_durations)
           /\ template_counts' = process_record_counts(rec, template_counts)
    /\ idx' = idx + 1
    /\ nread' = nread + 1
    /\ UNCHANGED <<pc, stats, observed, log_file, records, session_logs,
                   context_buffer, anomalies, iso_outputs, template_vars,
                   detect_vars, store_vars, other_vars>>

\* the lines are exhausted: the statistics are computed and returned
ReturnStatsAfterFallback ==
    /\ pc = "lines"
    /\ idx = Len(records)
    /\ stats' = calculate_stats(template_durations)
    /\ pc' = "trained"
    /\ UNCHANGED <<template_durations, template_counts, observed, nread,
                   record, stream_vars, template_vars, detect_vars,
                   store_vars, other_vars>>

NextFallback ==
    \/ \E rec \in FallbackRecords : YieldItem(rec)
    \/ ArrayParseFails
    \/ ParseLine
    \/ ReturnStatsAfterFallback

SpecFallback == InitFallback /\ [][NextFallback]_vars

(***************************************************************************)
(* StreamingLogAnalyzer._check_record_for_anomaly (Z-score) and            *)
(* _check_isolation_forest_anomaly, as detect_anomalies calls them for     *)
(* each record.                                                            *)
(***************************************************************************)

\* default of z_score_threshold
DefaultThreshold == 3

\* |z| above which the severity is HIGH
HighZ == 5

\* isolation score (in hundredths) below which the severity is HIGH: -0.5
HighIsolationScore == -50

\* a faulty guard: a zero standard deviation is never detected
StdNeverZero(st) == FALSE

\* stats['std_dev'] == 0
StdIsZero(st) == st.std_dev.sq = 0

\* z_score = (duration - mean) / std_dev, kept as  num / sqrt(densq)
ZScore(duration, st) ==
    [num |-> (duration * st.mean.den - st.mean.num) * st.std_dev.den,
     densq |-> st.mean.den * st.mean.den * st.std_dev.sq]

\* the faulty comparison abs(z) >= bound
AbsAtLeast(z, bound) == z.num * z.num >= bound * bound * z.densq

\* abs(z) > bound, for a bound >= 0
AbsGreater(z, bound) == z.num * z.num > bound * bound * z.densq

\* z > 0
Positive(z) == z.num > 0

\* datetime.now().isoformat(): some time of the run
Now == "now"

\* a faulty Z-score check: a new template is not reported
check_record_known_only(rec, baseline, threshold) ==
    LET msg == Get(rec, message_field, <<>>)
        duration == Get(rec, duration_field, 0)
        tpl == extract_template(msg)
    IN  IF ~TruthyMessage(msg) \/ tpl \notin DOMAIN baseline THEN None
        ELSE IF StdIsZero(baseline[tpl]) THEN None
        ELSE IF AbsGreater(ZScore(duration, baseline[tpl]), threshold)
        THEN [anomaly_type |-> "DURATION_SPIKE", severity |-> "HIGH"]
        ELSE None

\* The durations of the model are ints.  A record whose duration is of
\* another Python type carries that type in `duration_kind` (its
\* duration_ms entry is then not used): a str, None (JSON null), or the
\* Decimal ijson builds for a number with a fraction.
NonIntKinds == {"str", "None", "Decimal"}

HasIntDuration(rec) == "duration_kind" \notin DOMAIN rec

\* (duration - stats['mean']) / stats['std_dev'] raises TypeError when
\* duration is a str, None or a Decimal (stats['mean'] is a float); the
\* subtraction is reached for a message whose template is in the baseline
\* with a non-zero std_dev
z_score_raises(rec, baseline) ==
    LET msg == Get(rec, message_field, <<>>)
        tpl == extract_template(msg)
    IN  /\ TruthyMessage(msg)
        /\ tpl \in DOMAIN baseline
        /\ ~StdIsZero(baseline[tpl])
        /\ ~HasIntDuration(rec)

\* _check_record_for_anomaly(record, baseline_stats, z_score_threshold, ...)
check_record_for_anomaly(rec, baseline, threshold) ==
    LET msg == Get(rec, message_field, <<>>)
        duration == Get(rec, duration_field, 0)
        timestamp == Get(rec, "timestamp", Now)
        level == Get(rec, "level", "INFO")
        tpl == extract_template(msg)
    IN  IF ~TruthyMessage(msg) THEN None
        ELSE IF tpl \in DOMAIN baseline
        THEN LET st == baseline[tpl]
                 z_score == ZScore(duration, st)
             IN  IF StdIsZero(st) THEN None
                 ELSE IF AbsGreater(z_score, threshold)
                 THEN [timestamp |-> timestamp,
                       level |-> level,
                       message |-> msg,
                       template |-> tpl,
                       duration |-> duration,
                       expected_mean |-> st.mean,
                       expected_std |-> st.std_dev,
                       z_score |-> z_score,
                       anomaly_type |-> IF Positive(z_score)
                                        THEN "DURATION_SPIKE"
                                        ELSE "DURATION_DROP",
                       severity |-> IF AbsGreater(z_score, HighZ)
                                    THEN "HIGH" ELSE "MEDIUM"]
                 ELSE None
        ELSE [timestamp |-> timestamp,
              level |-> level,
              message |-> msg,
              template |-> tpl,
              duration |-> duration,
              anomaly_type |-> "NEW_PATTERN",
              severity |-> "MEDIUM",
              z_score |-> None]

\* _check_isolation_forest_anomaly(record, baseline_stats, iso_forest_model,
\* ...); prediction and score are what iso_forest_model.model.predict and
\* score_samples return for the template's feature vector
check_isolation_forest_anomaly(rec, baseline, prediction, score) ==
    LET msg == Get(rec, message_field, <<>>)
        duration == Get(rec, duration_field, 0)
        tpl == extract_template(msg)
    IN  IF ~TruthyMessage(msg) THEN None
        ELSE IF tpl \in DOMAIN baseline /\ prediction = -1
        THEN [timestamp |-> Get(rec, "timestamp", Now),
              level |-> Get(rec, "level", "INFO"),
              message |-> msg,
              template |-> tpl,
              duration |-> duration,
              anomaly_type |-> "ISOLATION_FOREST_ANOMALY",
              severity |-> IF score < HighIsolationScore
                           THEN "HIGH" ELSE "MEDIUM",
              isolation_score |-> score,
              expected_mean |-> baseline[tpl].mean]
        ELSE None

(***************************************************************************)
(* Detection scenario: detect_anomalies is called with a baseline, a       *)
(* threshold and the outlier-model options; for each record of the input   *)
(* the Z-score check runs, then the outlier-model check when it is on.     *)
(***************************************************************************)

\* the accumulators the baselines of the scenario are computed from
TrainingSets ==
    {EmptyDict,
     TplA :> <<90, 110, 90, 110, 90, 110>>,
     (TplA :> <<90, 90, 90, 90, 90>>) @@ (MsgB :> <<70, 90, 100, 110, 130>>),
     (TplA :> <<100, 100, 100, 100, 100, 160>>) @@ (MsgB :> <<90, 90>>)}

Baselines == {calculate_stats(acc) : acc \in TrainingSets}

Thresholds == {2, DefaultThreshold}

\* an analyzer is known by its is_trained flag
Models == {None, [is_trained |-> FALSE], [is_trained |-> TRUE]}

MsgC == <<"c">>

DetectMessages == {MsgA1, MsgB, MsgC, <<>>}

DetectDurations == {45, 65, 70, 90, 130, 135, 150, 155}

DetectRecords ==
    {[message |-> m, duration_ms |-> d] :
        m \in DetectMessages, d \in DetectDurations}
        \cup {[message |-> m] : m \in DetectMessages}
        \cup {[duration_ms |-> d] : d \in DetectDurations}
        \cup {[message |-> MsgA1, duration_ms |-> 135, level |-> "ERROR",
                timestamp |-> "t1"]}
        \cup {[message |-> m, duration_ms |-> 0, duration_kind |-> k] :
                m \in DetectMessages, k \in NonIntKinds}

Predictions == {-1, 1}

Scores == {-60, -50, -40}

InitDetect ==
    /\ pc = "detect"
    /\ StreamIdle
    /\ StoreIdle
    /\ OtherIdle
    /\ TemplateIdle
    /\ BaselineIdle
    /\ baseline_stats \in Baselines
    /\ z_score_threshold \in Thresholds
    /\ use_isolation_forest \in BOOLEAN
    /\ iso_forest_model \in Models
    /\ record = None
    /\ anomaly = None

\* the next record of the input: anomaly = self._check_record_for_anomaly(...)
CheckRecordForAnomaly(rec) ==
    /\ pc \in {"detect", "checked"}
    /\ record' = rec
    /\ IF z_score_raises(rec, baseline_stats)
       THEN /\ anomaly' = None
            /\ pc' = "raised"
       ELSE /\ anomaly' = check_record_for_anomaly(
                              rec, baseline_stats, z_score_threshold)
            /\ pc' = "zchecked"
    /\ UNCHANGED <<baseline_stats, z_score_threshold, use_isolation_forest,
                   iso_forest_model, template_vars, baseline_vars,
                   stream_vars, store_vars, other_vars>>

\* the outlier model is on: its anomaly is taken when the Z-score gave none
CheckIsolationForest(prediction, score) ==
    /\ pc = "zchecked"
    /\ use_isolation_forest
    /\ iso_forest_model # None
    /\ iso_forest_model.is_trained
    /\ LET iso_anomaly == check_isolation_forest_anomaly(
                              record, baseline_stats, prediction, score)
       IN  anomaly' = IF iso_anomaly # None /\ anomaly = None
                      THEN iso_anomaly ELSE anomaly
    /\ pc' = "checked"
    /\ UNCHANGED <<baseline_stats, z_score_threshold, use_isolation_forest,
                   iso_forest_model, record, template_vars, baseline_vars,
                   stream_vars, store_vars, other_vars>>

\* the outlier model is off, not supplied or not trained
SkipIsolationForest ==
    /\ pc = "zchecked"
    /\ ~(use_isolation_forest /\ iso_forest_model # None
            /\ iso_forest_model.is_trained)
    /\ pc' = "checked"
    /\ UNCHANGED <<detect_vars, record, template_vars, baseline_vars,
                   stream_vars, store_vars, other_vars>>

NextDetect ==
    \/ \E rec \in DetectRecords : CheckRecordForAnomaly(rec)
    \/ \E prediction \in Predictions, score \in Scores :
          CheckIsolationForest(prediction, score)
    \/ SkipIsolationForest

SpecDetect == InitDetect /\ [][NextDetect]_vars

(***************************************************************************)
(* StreamingLogAnalyzer.detect_anomalies as a whole: the records of the    *)
(* input are read, grouped by session id (first pass), then each record    *)
(* goes through the two detectors and an anomaly gets its context (second  *)
(* pass).  The array parse and the line-by-line parse run the same two     *)
(* passes.  A list of records holds references: in the model a reference   *)
(* to a record is its position in `records`, counted from 0 as enumerate   *)
(* does.                                                                   *)
(***************************************************************************)

\* default of session_id_field
session_id_field == "correlation_id"

\* deque(maxlen=10)
ContextWindow == 10

\* records[i+1:i+11]
FutureWindow == 10

\* the record a reference points to
RecordAt(recs, p) == recs[p + 1]

\* session_id = record.get(session_id_field);  if session_id:
HasSession(rec) ==
    /\ session_id_field \in DOMAIN rec
    /\ rec[session_id_field] # ""

\* the references to the records of a list, in order
Positions(recs) == [k \in 1 .. Len(recs) |-> k - 1]

\* first pass: session_logs[session_id].append(record) for each record with
\* a session id
group_sessions(recs) ==
    [sid \in {recs[k][session_id_field] :
                 k \in {j \in 1 .. Len(recs) : HasSession(recs[j])}} |->
        SelectSeq(Positions(recs),
                  LAMBDA p : /\ HasSession(RecordAt(recs, p))
                             /\ RecordAt(recs, p)[session_id_field] = sid)]

\* a faulty buffer: a deque without maxlen
append_unbounded(buf, p) == Append(buf, p)

\* context_buffer.append(record) on a deque(maxlen=10)
deque_append(buf, p) ==
    IF Len(buf) >= ContextWindow THEN Append(Tail(buf), p) ELSE Append(buf, p)

\* session_context.index(record): the first entry EQUAL to the record
IndexOf(session_context, rec, recs) ==
    SetMin({k \in 0 .. Len(session_context) - 1 :
               RecordAt(recs, session_context[k + 1]) = rec})

\* a faulty context: the session is counted up to the anomaly only
session_context_so_far(rec, recs, sessions) ==
    LET session_context == sessions[rec[session_id_field]]
        anomaly_index == IndexOf(session_context, rec, recs)
    IN  [session_id |-> rec[session_id_field],
         session_logs |-> SubSeq(session_context, 1, anomaly_index + 1),
         anomaly_position |-> anomaly_index,
         session_start |->
             Get(RecordAt(recs, session_context[1]), "timestamp", None),
         session_end |->
             Get(RecordAt(recs, session_context[anomaly_index + 1]),
                 "timestamp", None),
         total_logs_in_session |-> anomaly_index + 1,
         context_type |-> "FULL_SESSION"]

\* the context of an anomaly whose record belongs to a session
full_session_context(rec, recs, sessions) ==
    LET session_context == sessions[rec[session_id_field]]
    IN  [session_id |-> rec[session_id_field],
         session_logs |-> session_context,
         anomaly_position |-> IndexOf(session_context, rec, recs),
         session_start |->
             Get(RecordAt(recs, session_context[1]), "timestamp", None),
         session_end |->
             Get(RecordAt(recs, session_context[Len(session_context)]),
                 "timestamp", None),
         total_logs_in_session |-> Len(session_context),
         context_type |-> "FULL_SESSION"]

\* a faulty context: the slice records[i+1:i+10], one record short
window_context_short(recs, buf, i) ==
    [previous_logs |-> buf,
     current_log |-> i,
     next_logs |-> IF i + 1 < Len(recs)
                   THEN SubSeq(Positions(recs), i + 2,
                               IF i + FutureWindow < Len(recs)
                               THEN i + FutureWindow ELSE Len(recs))
                   ELSE <<>>,
     position |-> i,
     context_type |-> "WINDOW_BASED"]

\* the context of an anomaly whose record has no session: the buffered
\* records before it and the records after it
window_context(recs, buf, i) ==
    [previous_logs |-> buf,
     current_log |-> i,
     next_logs |-> IF i + 1 < Len(recs)
                   THEN SubSeq(Positions(recs), i + 2,
                               IF i + 1 + FutureWindow < Len(recs)
                               THEN i + 1 + FutureWindow ELSE Len(recs))
                   ELSE <<>>,
     position |-> i,
     context_type |-> "WINDOW_BASED"]

\* a faulty choice: a record without a session gets no context
attach_session_context_only(anom, rec, recs, sessions, buf, i) ==
    IF HasSession(rec) /\ rec[session_id_field] \in DOMAIN sessions
    THEN ("context" :> full_session_context(rec, recs, sessions)) @@ anom
    ELSE anom

\* anomaly['context'] = {...}
attach_context(anom, rec, recs, sessions, buf, i) ==
    IF HasSession(rec) /\ rec[session_id_field] \in DOMAIN sessions
    THEN ("context" :> full_session_context(rec, recs, sessions)) @@ anom
    ELSE ("context" :> window_context(recs, buf, i)) @@ anom

\* a faulty combination: the outlier model's anomaly is preferred
combine_forest_first(z_anomaly, iso_anomaly) ==
    IF iso_anomaly # None THEN iso_anomaly ELSE z_anomaly

\* if iso_anomaly and not anomaly: anomaly = iso_anomaly
combine(z_anomaly, iso_anomaly) ==
    IF iso_anomaly # None /\ z_anomaly = None THEN iso_anomaly ELSE z_anomaly

\* a faulty gate: use_isolation_forest is not looked at
ForestEnabled_ignoring_use(use, model) ==
    /\ model # None
    /\ model.is_trained

\* use_isolation_forest and iso_forest_model and iso_forest_model.is_trained
ForestEnabled(use, model) ==
    /\ use
    /\ model # None
    /\ model.is_trained

\* the outlier model's verdict for a record; None when the model is not used
forest_anomaly(rec, baseline, use, model, outputs) ==
    LET tpl == extract_template(Get(rec, message_field, <<>>))
    IN  IF ~ForestEnabled(use, model) THEN None
        ELSE IF tpl \in DOMAIN outputs
        THEN check_isolation_forest_anomaly(
                 rec, baseline, outputs[tpl].prediction, outputs[tpl].score)
        ELSE check_isolation_forest_anomaly(rec, baseline, 1, 0)

\* a faulty loop: a template already reported is not reported again
detected_once(rec, baseline, threshold, use, model, outputs) ==
    LET tpl == extract_template(Get(rec, message_field, <<>>))
    IN  IF \E k \in 1 .. Len(anomalies) : anomalies[k].template = tpl
        THEN None
        ELSE combine(check_record_for_anomaly(rec, baseline, threshold),
                     forest_anomaly(rec, baseline, use, model, outputs))

\* the loop's `anomaly` once both detectors ran
detected(rec, baseline, threshold, use, model, outputs) ==
    combine(check_record_for_anomaly(rec, baseline, threshold),
            forest_anomaly(rec, baseline, use, model, outputs))

(***************************************************************************)
(* Stream scenario: the input is absent, and calculate_baseline_stats then  *)
(* detect_anomalies are called on it; or it holds a run of ordinary        *)
(* records, then a few records of any kind, then ordinary records again,   *)
(* and detect_anomalies is called with a baseline.                         *)
(***************************************************************************)
\* number of ordinary records before the records of interest
MaxBefore == 11

\* number of records of interest
MaxCore == 2

\* number of ordinary records after the records of interest
MaxAfter == 11

\* mean 100, standard deviation 10
StreamBaseline == calculate_stats(TplA :> <<90, 110, 90, 110, 90, 110>>)

Ordinary == [message |-> MsgA1, duration_ms |-> 90]

SpikeNoSession == [message |-> MsgA1, duration_ms |-> 135]

SpikeEmptySession ==
    [message |-> MsgA1, duration_ms |-> 135, correlation_id |-> ""]

SpikeInSession ==
    [message |-> MsgA1, duration_ms |-> 135, correlation_id |-> "s1",
     timestamp |-> "t2"]

OrdinaryInSession ==
    [message |-> MsgA1, duration_ms |-> 90, correlation_id |-> "s1",
     timestamp |-> "t1"]

NewPatternInSession ==
    [message |-> MsgC, duration_ms |-> 90, correlation_id |-> "s2"]

CoreRecords ==
    {SpikeNoSession, SpikeEmptySession, SpikeInSession, OrdinaryInSession,
     NewPatternInSession}

Cores == UNION {[1 .. n -> CoreRecords] : n \in 0 .. MaxCore}

Run(n) == [k \in 1 .. n |-> Ordinary]

\* lengths of the runs before and after the records of interest
Pads == {<<0, 0>>, <<MaxBefore, 0>>, <<0, MaxAfter>>}

Streams == {Run(pad[1]) \o core \o Run(pad[2]) : pad \in Pads, core \in Cores}

\* use_isolation_forest, iso_forest_model and, for a trained model, what its
\* forest answers for the template of the baseline
ForestOptions ==
    {[use |-> FALSE, model |-> None, outputs |-> EmptyDict],
     [use |-> TRUE, model |-> None, outputs |-> EmptyDict],
     [use |-> TRUE, model |-> [is_trained |-> FALSE], outputs |-> EmptyDict],
     [use |-> FALSE, model |-> [is_trained |-> TRUE],
      outputs |-> TplA :> [prediction |-> -1, score |-> -60]],
     [use |-> TRUE, model |-> [is_trained |-> TRUE],
      outputs |-> TplA :> [prediction |-> -1, score |-> -60]],
     [use |-> TRUE, model |-> [is_trained |-> TRUE],
      outputs |-> TplA :> [prediction |-> 1, score |-> -40]]}

InitStream ==
    /\ pc = "open"
    /\ TemplateIdle
    /\ BaselineIdle
    /\ StoreIdle
    /\ OtherIdle
    /\ log_file \in {"missing", "present"}
    /\ baseline_stats = StreamBaseline
    /\ z_score_threshold = DefaultThreshold
    /\ \E o \in ForestOptions :
          /\ use_isolation_forest = o.use
          /\ iso_forest_model = o.model
          /\ iso_outputs = o.outputs
    /\ records = <<>>
    /\ session_logs = EmptyDict
    /\ idx = 0
    /\ context_buffer = <<>>
    /\ anomalies = <<>>
    /\ record = None
    /\ anomaly = None

\* a faulty handler: the FileNotFoundError is not caught
raise_file_not_found == [outcome |-> "raise", value |-> <<>>]

\* what detect_anomalies returns when open() raises FileNotFoundError
detect_on_missing_file == [outcome |-> "return", value |-> <<>>]

\* except FileNotFoundError: return []
DetectFileNotFound ==
    /\ pc = "no_baseline"
    /\ log_file = "missing"
    /\ pc' = IF detect_on_missing_file.outcome = "return"
             THEN "returned" ELSE "raised"
    /\ anomalies' = detect_on_missing_file.value
    /\ UNCHANGED <<log_file, records, session_logs, idx, context_buffer,
                   iso_outputs, detect_vars, record, template_vars,
                   baseline_vars, store_vars, other_vars>>

\* the records are read and grouped by session id
ReadRecords(stream) ==
    /\ pc = "open"
    /\ log_file = "present"
    /\ records' = stream
    /\ session_logs' = group_sessions(stream)
    /\ pc' = "loop"
    /\ UNCHANGED <<log_file, idx, context_buffer, anomalies, iso_outputs,
                   detect_vars, record, template_vars, baseline_vars,
                   store_vars, other_vars>>

\* one iteration of  for i, record in enumerate(records)
DetectRecord ==
    /\ pc = "loop"
    /\ idx < Len(records)
    /\ LET rec == RecordAt(records, idx)
           found == detected(rec, baseline_stats, z_score_threshold,
                             use_isolation_forest, iso_forest_model,
                             iso_outputs)
           with_context == attach_context(found, rec, records, session_logs,
                                          context_buffer, idx)
       IN  /\ record' = rec
           /\ anomaly' = IF found # None THEN with_context ELSE None
           /\ anomalies' = IF found # None
                           THEN Append(anomalies, with_context)
                           ELSE anomalies
    /\ context_buffer' = deque_append(context_buffer, idx)
    /\ idx' = idx + 1
    /\ UNCHANGED <<pc, log_file, records, session_logs, iso_outputs,
                   baseline_stats, z_score_threshold, use_isolation_forest,
                   iso_forest_model, template_vars, baseline_vars,
                   store_vars, other_vars>>

\* return anomalies
ReturnAnomalies ==
    /\ pc = "loop"
    /\ idx = Len(records)
    /\ pc' = "returned"
    /\ UNCHANGED <<stream_vars, detect_vars, record, template_vars,
                   baseline_vars, store_vars, other_vars>>

NextStream ==
    \/ BaselineFileNotFound
    \/ DetectFileNotFound
    \/ \E stream \in Streams : ReadRecords(stream)
    \/ DetectRecord
    \/ ReturnAnomalies

SpecStream == InitStream /\ [][NextStream]_vars

(***************************************************************************)
(* Persistence: IsolationForestAnalyzer (__init__, train_on_baseline,      *)
(* save_model, load_model) and save_baseline_stats / load_baseline_stats.  *)
(* A file system is a function from paths to contents, None for a path     *)
(* where no file exists.                                                   *)
(***************************************************************************)

\* train_on_baseline: if len(features) < 10: return
MinTemplates == 10

\* IsolationForestAnalyzer.__init__: an unfitted forest, is_trained False
\* (`fresh` is history: no train_on_baseline or load_model call yet)
new_analyzer ==
    [model |-> [fitted |-> FALSE, templates |-> 0],
     is_trained |-> FALSE,
     fresh |-> TRUE]

\* train_on_baseline(baseline_stats): one feature row per template; with
\* fewer than 10 rows the method returns before touching self
train_on_baseline(an, baseline) ==
    IF Cardinality(DOMAIN baseline) < MinTemplates
    THEN [an EXCEPT !.fresh = FALSE]
    ELSE [model |-> [fitted |-> TRUE,
                     templates |-> Cardinality(DOMAIN baseline)],
          is_trained |-> TRUE,
          fresh |-> FALSE]

\* a faulty write: an existing file is kept
write_if_absent(fs, path, content) ==
    IF fs[path] = None THEN [fs EXCEPT ![path] = content] ELSE fs

\* open(filepath, 'w') / joblib.dump: the file is created or replaced
write_file(fs, path, content) == [fs EXCEPT ![path] = content]

\* save_model(filepath): if self.is_trained: joblib.dump(self.model, filepath)
save_model(an, fs, path) ==
    IF an.is_trained THEN write_file(fs, path, [joblib |-> an.model]) ELSE fs

\* load_model(filepath): self.model = joblib.load(filepath);
\* self.is_trained = True; on FileNotFoundError a warning is printed
load_model(an, fs, path) ==
    IF fs[path] = None
    THEN [an EXCEPT !.fresh = FALSE]
    ELSE [model |-> fs[path].joblib, is_trained |-> TRUE, fresh |-> FALSE]

\* the keys of a dict in the order they are iterated
RECURSIVE Enumerate(_)
Enumerate(S) ==
    IF S = {} THEN <<>>
    ELSE LET x == CHOOSE y \in S : TRUE
         IN  <<x>> \o Enumerate(S \ {x})

\* a number as json.dump writes it: repr of the int or of the float
JsonNumber(x) == [literal |-> x]

\* the number json.load reads from a literal: repr round-trips
ParseNumber(t) == t.literal

\* json.dump(stats, f, indent=2): an object with one member per template,
\* whose value is an object with one member per statistic
json_dump(d) ==
    LET keys == Enumerate(DOMAIN d)
    IN  [k \in 1 .. Len(keys) |->
            [name |-> keys[k],
             value |-> LET inner == Enumerate(DOMAIN d[keys[k]])
                       IN  [j \in 1 .. Len(inner) |->
                               [name |-> inner[j],
                                value |-> JsonNumber(d[keys[k]][inner[j]])]]]]

\* the names of the members of a JSON object
MemberNames(obj) == {obj[k].name : k \in 1 .. Len(obj)}

\* the value of a name in a JSON object: the last member wins
MemberValue(obj, name) ==
    obj[SetMax({k \in 1 .. Len(obj) : obj[k].name = name})].value

\* json.load(f) of such a document
json_load(doc) ==
    [name \in MemberNames(doc) |->
        LET obj == MemberValue(doc, name)
        IN  [f \in MemberNames(obj) |-> ParseNumber(MemberValue(obj, f))]]

\* save_baseline_stats(stats, filepath)
save_baseline_stats(fs, d, path) ==
    write_file(fs, path, [json |-> json_dump(d)])

\* load_baseline_stats(filepath): {} on FileNotFoundError
load_baseline_stats(fs, path) ==
    IF fs[path] = None THEN EmptyDict ELSE json_load(fs[path].json)

(***************************************************************************)
(* Persistence scenario: two analyzer objects, two paths for models and    *)
(* one for baselines; any operation on any of them, in any order.          *)
(***************************************************************************)
\* number of operations of a run
MaxOps == 5

AnalyzerNames == {"a", "b"}

ModelPaths == {"m1", "m2"}

StatsPaths == {"b1"}

TemplateLetters == <<"a", "b", "c", "d", "e", "f", "g", "h", "i", "j">>

\* a baseline with n templates
BaselineOfSize(n) ==
    [t \in {<<"t", TemplateLetters[k]>> : k \in 1 .. n} |->
        TemplateStats(<<90, 110, 90, 110, 90>>)]

StoreBaselines ==
    {BaselineOfSize(MinTemplates - 1), BaselineOfSize(MinTemplates)}

InitStore ==
    /\ pc = "store"
    /\ OtherIdle
    /\ TemplateIdle
    /\ BaselineIdle
    /\ DetectIdle
    /\ StreamIdle
    /\ record = None
    /\ analyzers = [a \in AnalyzerNames |-> new_analyzer]
    /\ files = [p \in ModelPaths \cup StatsPaths |-> None]
    /\ prev_op = None
    /\ loaded = EmptyDict
    /\ last_op = None
    /\ nops = 0

\* the frame of an operation of the scenario: it is counted and remembered
\* (prev_op keeps the operation before it)
Operation(op) ==
    /\ pc = "store"
    /\ nops < MaxOps
    /\ nops' = nops + 1
    /\ last_op' = op
    /\ prev_op' = last_op
    /\ UNCHANGED <<pc, template_vars, baseline_vars, detect_vars, record,
                   stream_vars, other_vars>>

\* a = IsolationForestAnalyzer()
Construct(a) ==
    /\ Operation([op |-> "construct", analyzer |-> a])
    /\ analyzers' = [analyzers EXCEPT ![a] = new_analyzer]
    /\ UNCHANGED <<files, loaded>>

\* a.train_on_baseline(baseline)
TrainOnBaseline(a, baseline) ==
    /\ Operation([op |-> "train_on_baseline", analyzer |-> a,
                  templates |-> Cardinality(DOMAIN baseline)])
    /\ analyzers' =
          [analyzers EXCEPT ![a] = train_on_baseline(analyzers[a], baseline)]
    /\ UNCHANGED <<files, loaded>>

\* a.save_model(path)
SaveModel(a, path) ==
    /\ Operation([op |-> "save_model", analyzer |-> a, path |-> path,
                  is_trained |-> analyzers[a].is_trained])
    /\ files' = save_model(analyzers[a], files, path)
    /\ UNCHANGED <<analyzers, loaded>>

\* a.load_model(path)
LoadModel(a, path) ==
    /\ Operation([op |-> "load_model", analyzer |-> a, path |-> path,
                  found |-> files[path] # None,
                  was_fresh |-> analyzers[a].fresh])
    /\ analyzers' =
          [analyzers EXCEPT ![a] = load_model(analyzers[a], files, path)]
    /\ UNCHANGED <<files, loaded>>

\* save_baseline_stats(baseline, path)
SaveBaselineStats(baseline, path) ==
    /\ Operation([op |-> "save_baseline_stats", path |-> path,
                  stats |-> baseline])
    /\ files' = save_baseline_stats(files, baseline, path)
    /\ UNCHANGED <<analyzers, loaded>>

\* loaded = load_baseline_stats(path)
LoadBaselineStats(path) ==
    /\ Operation([op |-> "load_baseline_stats", path |-> path,
                  found |-> files[path] # None])
    /\ loaded' = load_baseline_stats(files, path)
    /\ UNCHANGED <<analyzers, files>>

NextStore ==
    \/ \E a \in AnalyzerNames : Construct(a)
    \/ \E a \in AnalyzerNames, baseline \in StoreBaselines :
          TrainOnBaseline(a, baseline)
    \/ \E a \in AnalyzerNames, path \in ModelPaths : SaveModel(a, path)
    \/ \E a \in AnalyzerNames, path \in ModelPaths : LoadModel(a, path)
    \/ \E baseline \in StoreBaselines, path \in StatsPaths :
          SaveBaselineStats(baseline, path)
    \/ \E path \in StatsPaths : LoadBaselineStats(path)

SpecStore == InitStore /\ [][NextStore]_vars

(***************************************************************************)
(* CommanderAgent of src/src/autonomous_first_responder.py: the reasoning  *)
(* loop detect -> plan -> investigate -> decide -> act -> report that      *)
(* handle_alert runs for an alert, several handle_alert coroutines being   *)
(* interleaved on one commander.  A text is one string; the substring      *)
(* tests of the code are modelled by the set of the scenario's texts that  *)
(* contain the word.  An action is its verb and what it applies to.        *)
(***************************************************************************)

\* Python's None where the other values are strings
NoneText == "None"

TimeoutMessage == "Database connection timeout"

ErrorMessage == "5xx error rate increased to 15%"

PlainMessage == "Incident 1"

\* "timeout" in alert.message.lower()
MentionsTimeout(msg) == msg = TimeoutMessage

\* "5xx" in alert.message or "error" in alert.message.lower()
MentionsError(msg) == msg = ErrorMessage

\* LogsAgent.investigate: findings["error_patterns"]
error_patterns(alert) ==
    IF MentionsTimeout(alert.message)
    THEN <<"Connection timeout to database", "Slow query detected (>5s)",
           "Connection pool exhausted">>
    ELSE IF MentionsError(alert.message)
    THEN <<"NullPointerException in request handler",
           "Failed to deserialize request payload",
           "Upstream service unavailable">>
    ELSE <<>>

\* MetricsAgent.investigate: findings["resource_exhaustion"]
resource_exhaustion(alert) ==
    IF MentionsTimeout(alert.message)
    THEN <<"database_connections", "memory">> ELSE <<>>

\* MetricsAgent.investigate: findings["current_metrics"]["error_rate"], in
\* hundredths
error_rate(alert) == IF MentionsTimeout(alert.message) THEN 23 ELSE 15

\* the findings the three agents report for an alert; `suspicious` is what
\* DeployIntelligenceAgent finds in its deployment history for the alert
agent_findings(alert, suspicious) ==
    [logs |-> [error_patterns |-> error_patterns(alert)],
     metrics |-> [resource_exhaustion |-> resource_exhaustion(alert),
                  error_rate |-> error_rate(alert)],
     deployments |-> [suspicious_deployments |-> suspicious,
                      correlation_score |->
                          IF suspicious # <<>> THEN 87 ELSE 15]]

UnableToDetermine ==
    "Unable to determine definitive root cause - requires human investigation"

DeploymentCause == "Recent deployment introduced regression"

\* CommanderAgent._synthesize_root_cause
synthesize_root_cause(findings) ==
    IF /\ findings.deployments.correlation_score > 70
       /\ findings.deployments.suspicious_deployments # <<>>
    THEN DeploymentCause
    ELSE IF findings.metrics.resource_exhaustion # <<>>
    THEN "Resource exhaustion"
    ELSE IF findings.logs.error_patterns # <<>>
    THEN "Application error"
    ELSE UnableToDetermine

\* the actions _determine_actions adds for one exhausted resource
resource_actions(resource) ==
    IF resource = "database_connections"
    THEN <<[verb |-> "SCALE", object |-> "database connection pool"]>>
    ELSE IF resource = "memory"
    THEN <<[verb |-> "SCALE", object |-> "service memory"],
           [verb |-> "TRIGGER", object |-> "garbage collection"]>>
    ELSE <<>>

RECURSIVE all_resource_actions(_)
all_resource_actions(resources) ==
    IF resources = <<>> THEN <<>>
    ELSE resource_actions(Head(resources))
            \o all_resource_actions(Tail(resources))

EscalateAction == [verb |-> "ESCALATE", object |-> "human operator"]

\* CommanderAgent._determine_actions
determine_actions(inv, root_cause) ==
    LET deploys == inv.findings.deployments.suspicious_deployments
        actions ==
            (IF root_cause = DeploymentCause /\ deploys # <<>>
             THEN <<[verb |-> "ROLLBACK", object |-> deploys[1].id],
                    [verb |-> "NOTIFY", object |-> deploys[1].version]>>
             ELSE <<>>)
            \o all_resource_actions(inv.findings.metrics.resource_exhaustion)
            \o (IF inv.findings.metrics.error_rate > 20
                THEN <<[verb |-> "ACTIVATE", object |-> "circuit breaker"]>>
                ELSE <<>>)
            \o <<[verb |-> "MONITOR", object |-> inv.alert.service],
                 [verb |-> "GENERATE", object |-> "incident report"]>>
    IN  IF actions = <<>> \/ root_cause = UnableToDetermine
        THEN <<EscalateAction>>
        ELSE actions

\* the service names of the scenario that contain the word ESCALATE
EscalateNames == {"ESCALATE-desk"}

\* a faulty test: only the action whose verb is ESCALATE
verb_is_escalate(action) == action.verb = "ESCALATE"

\* "ESCALATE" in action
contains_escalate(action) ==
    action.verb = "ESCALATE" \/ action.object \in EscalateNames

\* a faulty loop: no break after an ESCALATE action
rest_without_break(action, actions) == Tail(actions)

\* the actions left to the loop of act after `action`: none after the break
rest_after(action, actions) ==
    IF contains_escalate(action) THEN <<>> ELSE Tail(actions)

\* a faulty lookup: the investigation registered under the alert's id
investigation_by_id(h, active, alert) == active[alert.id]

\* the Investigation a coroutine works on: its local `investigation`, the
\* object its own detect call returned
investigation_of(h, active, alert) == h

\* CommanderAgent.plan: the plan for an alert
plan_for(alert) ==
    (IF alert.severity \in {"critical", "high"}
     THEN <<"Deploy all specialist agents in parallel",
            "Prioritize fast remediation over comprehensive analysis">>
     ELSE <<"Sequential agent deployment for thorough investigation">>)
    \o (IF MentionsTimeout(alert.message)
        THEN <<"Focus on resource exhaustion and connection issues",
               "Check database and network metrics">>
        ELSE IF MentionsError(alert.message)
        THEN <<"Analyze error patterns and stack traces",
               "Correlate with recent code deployments">>
        ELSE <<>>)
    \o <<"Synthesize findings and determine root cause",
         "Recommend automated remediation actions">>

\* a faulty end of act: the status stays ACTING unless escalated
keep_status(status) == status

\* the end of act: RESOLVED unless the loop escalated
final_status(status) == IF status # "escalated" THEN "resolved" ELSE status

(***************************************************************************)
(* Commander scenario: two handle_alert coroutines on one commander, each  *)
(* with an alert of its own (the ids may be equal), interleaved at every   *)
(* phase and at every action of act.                                       *)
(***************************************************************************)
Handlers == {"h1", "h2"}

Alerts ==
    {[id |-> "INC-1", service |-> "api-gateway", severity |-> "critical",
      message |-> TimeoutMessage],
     [id |-> "INC-2", service |-> "payment-service", severity |-> "high",
      message |-> ErrorMessage],
     [id |-> "INC-1", service |-> "service-1", severity |-> "low",
      message |-> PlainMessage],
     [id |-> "INC-3", service |-> "ESCALATE-desk", severity |-> "high",
      message |-> ErrorMessage]}

\* what the deployment history holds for an alert
SuspiciousDeployments ==
    {<<>>, <<[id |-> "deploy-100", version |-> "v2.0.1"]>>}

InitCommander ==
    /\ pc = "commander"
    /\ TemplateIdle
    /\ BaselineIdle
    /\ DetectIdle
    /\ StreamIdle
    /\ StoreIdle
    /\ WindowIdle
    /\ record = None
    /\ tasks \in [Handlers ->
                    [pc : {"start"}, alert : Alerts,
                     suspicious : SuspiciousDeployments]]
    /\ investigations = [h \in Handlers |-> None]
    /\ active_investigations = EmptyDict
    /\ acts = [h \in Handlers |-> [actions |-> <<>>, executed |-> <<>>]]
    /\ reports = [h \in Handlers |-> None]

\* the frame of a step of coroutine h from one position to the next
Advance(h, from, to) ==
    /\ pc = "commander"
    /\ tasks[h].pc = from
    /\ tasks' = [tasks EXCEPT ![h].pc = to]
    /\ UNCHANGED <<pc, template_vars, baseline_vars, detect_vars, record,
                   stream_vars, store_vars, window_vars>>

\* the object coroutine h works on
Own(h) == investigation_of(h, active_investigations, tasks[h].alert)

\* investigation.findings["logs"] raises KeyError before investigate filled
\* the findings of the object
key_error(inv) == DOMAIN inv.findings = {}

\* the exception leaves handle_alert: the coroutine ends without a report
Raise(h, from) ==
    /\ Advance(h, from, "raised")
    /\ UNCHANGED <<investigations, active_investigations, acts, reports>>

\* investigation = await self.detect(alert)
Detect(h) ==
    /\ Advance(h, "start", "detected")
    /\ investigations' =
          [investigations EXCEPT ![h] =
              [alert |-> tasks[h].alert,
               status |-> "detected",
               plan |-> <<>>,
               findings |-> EmptyDict,
               decision |-> NoneText,
               actions_taken |-> <<>>,
               resolved_at |-> NoneText]]
    /\ active_investigations' =
          Put(active_investigations, tasks[h].alert.id, h)
    /\ UNCHANGED <<acts, reports>>

\* await self.plan(investigation)
Plan(h) ==
    /\ Advance(h, "detected", "planned")
    /\ investigations' =
          [investigations EXCEPT
              ![Own(h)].status = "planning",
              ![Own(h)].plan = plan_for(investigations[Own(h)].alert)]
    /\ UNCHANGED <<active_investigations, acts, reports>>

\* await self.investigate(investigation): the three agents are gathered
Investigate(h) ==
    /\ Advance(h, "planned", "investigated")
    /\ investigations' =
          [investigations EXCEPT
              ![Own(h)].status = "investigating",
              ![Own(h)].findings =
                  agent_findings(investigations[Own(h)].alert,
                                 tasks[h].suspicious)]
    /\ UNCHANGED <<active_investigations, acts, reports>>

\* await self.decide(investigation)
Decide(h) ==
    /\ tasks[h].pc = "investigated"
    /\ IF key_error(investigations[Own(h)])
       THEN Raise(h, "investigated")
       ELSE /\ Advance(h, "investigated", "decided")
            /\ investigations' =
                  [investigations EXCEPT
                      ![Own(h)].status = "deciding",
                      ![Own(h)].decision =
                          synthesize_root_cause(
                              investigations[Own(h)].findings)]
            /\ UNCHANGED <<active_investigations, acts, reports>>

\* act, up to the loop over the actions
ActBegin(h) ==
    /\ tasks[h].pc = "decided"
    /\ IF key_error(investigations[Own(h)])
       THEN Raise(h, "decided")
       ELSE /\ Advance(h, "decided", "acting")
            /\ investigations' =
                  [investigations EXCEPT ![Own(h)].status = "acting"]
            /\ acts' = [acts EXCEPT ![h] =
                          [actions |-> determine_actions(
                                           investigations[Own(h)],
                                           investigations[Own(h)].decision),
                           executed |-> <<>>]]
            /\ UNCHANGED <<active_investigations, reports>>

\* act: one iteration of  for action in actions  (break on ESCALATE)
ActStep(h) ==
    /\ Advance(h, "acting", "acting")
    /\ acts[h].actions # <<>>
    /\ LET action == Head(acts[h].actions)
       IN  /\ investigations' =
                 IF contains_escalate(action)
                 THEN [investigations EXCEPT ![Own(h)].status = "escalated"]
                 ELSE investigations
           /\ acts' = [acts EXCEPT ![h] =
                         [actions |-> rest_after(action, acts[h].actions),
                          executed |-> Append(acts[h].executed, action)]]
    /\ UNCHANGED <<active_investigations, reports>>

\* act, after the loop
ActEnd(h) ==
    /\ Advance(h, "acting", "acted")
    /\ acts[h].actions = <<>>
    /\ investigations' =
          [investigations EXCEPT
              ![Own(h)].actions_taken = acts[h].executed,
              ![Own(h)].status = final_status(investigations[Own(h)].status),
              ![Own(h)].resolved_at =
                  IF investigations[Own(h)].status # "escalated"
                  THEN Now ELSE investigations[Own(h)].resolved_at]
    /\ UNCHANGED <<active_investigations, acts, reports>>

\* report = await self.report(investigation);  return report
Report(h) ==
    /\ tasks[h].pc = "acted"
    /\ IF key_error(investigations[Own(h)])
       THEN Raise(h, "acted")
       ELSE /\ Advance(h, "acted", "reported")
            /\ reports' =
                  [reports EXCEPT ![h] =
                      LET inv == investigations[Own(h)]
                      IN  [incident_id |-> inv.alert.id,
                           status |-> inv.status,
                           severity |-> inv.alert.severity,
                           service |-> inv.alert.service,
                           resolution_time |-> inv.resolved_at,
                           root_cause |-> inv.decision,
                           investigation_plan |-> inv.plan,
                           findings |-> inv.findings,
                           actions_taken |-> inv.actions_taken]]
            /\ UNCHANGED <<investigations, active_investigations, acts>>

HandleAlert(h) ==
    \/ Detect(h)
    \/ Plan(h)
    \/ Investigate(h)
    \/ Decide(h)
    \/ ActBegin(h)
    \/ ActStep(h)
    \/ ActEnd(h)
    \/ Report(h)

NextCommander == \E h \in Handlers : HandleAlert(h)

SpecCommander == InitCommander /\ [][NextCommander]_vars

\* the event loop runs every coroutine that can go on
SpecCommanderFair ==
    /\ SpecCommander
    /\ \A h \in Handlers : WF_vars(HandleAlert(h))

(***************************************************************************)
(* telemetry/detector.py: the sustained-latency detector.  WINDOW is a     *)
(* module-level deque(maxlen=3); detect_incident and reset_detector are    *)
(* called in any order.                                                    *)
(***************************************************************************)
\* THRESHOLD = 700
THRESHOLD == 700

\* WINDOW = deque(maxlen=3)
WindowLen == 3

\* latency = metric.get("latency_ms", 0)
latency_of(metric) == Get(metric, "latency_ms", 0)

\* WINDOW.append(latency) on a deque(maxlen=3)
window_append(window, latency) ==
    IF Len(window) >= WindowLen
    THEN Append(Tail(window), latency)
    ELSE Append(window, latency)

\* a faulty test: the length of the window is not looked at
breach_without_length(window) ==
    \A k \in 1 .. Len(window) : window[k] >= THRESHOLD

\* len(WINDOW) == 3 and all(l >= THRESHOLD for l in WINDOW)
sustained_breach(window) ==
    /\ Len(window) = 3
    /\ \A k \in 1 .. Len(window) : window[k] >= THRESHOLD

\* number of calls of the scenario
MaxMetrics == 5

\* the metrics of the scenario: latencies below, at and above the threshold,
\* and a metric without latency_ms
Metrics ==
    {[latency_ms |-> l] : l \in {0, 699, 700, 900}} \cup {[cpu |-> 50]}

\* the mark of a reset_detector call in the history
ResetMark == [reset |-> TRUE]

InitTelemetry ==
    /\ pc = "telemetry"
    /\ TemplateIdle
    /\ BaselineIdle
    /\ DetectIdle
    /\ StreamIdle
    /\ StoreIdle
    /\ AgentIdle
    /\ record = None
    /\ WINDOW = <<>>
    /\ returned = FALSE
    /\ submitted = <<>>
    /\ ncalls = 0

\* the frame of a call of the detector
Call(event) ==
    /\ pc = "telemetry"
    /\ ncalls < MaxMetrics
    /\ ncalls' = ncalls + 1
    /\ submitted' = Append(submitted, event)
    /\ UNCHANGED <<pc, template_vars, baseline_vars, detect_vars, record,
                   stream_vars, store_vars, agent_vars>>

\* detect_incident(metric)
DetectIncident(metric) ==
    /\ Call(metric)
    /\ WINDOW' = window_append(WINDOW, latency_of(metric))
    /\ returned' = sustained_breach(WINDOW')

\* reset_detector()
ResetDetector ==
    /\ Call(ResetMark)
    /\ WINDOW' = <<>>
    /\ UNCHANGED returned

NextTelemetry ==
    \/ \E metric \in Metrics : DetectIncident(metric)
    \/ ResetDetector

SpecTelemetry == InitTelemetry /\ [][NextTelemetry]_vars

(***************************************************************************)
(* Claims about calculate_baseline_stats (checked under SpecBaseline).     *)
(***************************************************************************)

\* C2: a template is in the returned mapping if and only if at least 5
\* records with a non-empty message of that template were in the stream.
C2_InBaselineIffFiveObserved ==
    pc = "trained" =>
        \A tpl \in DOMAIN observed \cup DOMAIN stats :
            tpl \in DOMAIN stats <=> Get(observed, tpl, 0) >= 5

\* C3: every record with a non-empty message adds exactly one duration to
\* its template's accumulator, a missing duration as 0; only records with an
\* empty or absent message are skipped.
C3_EveryMessageRecordAccumulated ==
    /\ \A tpl \in DOMAIN observed \cup DOMAIN template_durations :
          Len(Get(template_durations, tpl, <<>>)) = Get(observed, tpl, 0)
    /\ (pc = "train" /\ nread > 0 /\ Get(record, message_field, <<>>) # <<>>)
          => LET acc == Get(template_durations,
                            extract_template(record[message_field]), <<>>)
             IN  /\ acc # <<>>
                 /\ acc[Len(acc)] = Get(record, duration_field, 0)

(***************************************************************************)
(* Claims about the detectors (checked under SpecDetect).                  *)
(***************************************************************************)

\* the record being processed has a message whose template is in the baseline
RecordInBaseline ==
    /\ pc \in {"zchecked", "checked"}
    /\ Get(record, message_field, <<>>) # <<>>
    /\ extract_template(record[message_field]) \in DOMAIN baseline_stats

\* the record being processed has a message whose template is not
RecordNotInBaseline ==
    /\ pc \in {"zchecked", "checked"}
    /\ Get(record, message_field, <<>>) # <<>>
    /\ extract_template(record[message_field]) \notin DOMAIN baseline_stats

RecordStats == baseline_stats[extract_template(record[message_field])]

RecordDuration == Get(record, duration_field, 0)

\* the sign of duration - mean
Deviation == RecordDuration * RecordStats.mean.den - RecordStats.mean.num

\* |duration - mean| > k * std_dev, both sides squared and cleared of their
\* denominators
DeviatesMoreThan(k) ==
    Deviation * Deviation * RecordStats.std_dev.den * RecordStats.std_dev.den
        > k * k * RecordStats.std_dev.sq
              * RecordStats.mean.den * RecordStats.mean.den

\* mean = 100 and std_dev = 10
Mean100Std10 ==
    /\ RecordStats.mean.num = 100 * RecordStats.mean.den
    /\ RecordStats.std_dev.sq
          = 100 * RecordStats.std_dev.den * RecordStats.std_dev.den

\* C4: for a template of the baseline whose std_dev is 0 the Z-score check
\* returns no anomaly, whatever the duration of the record; no DURATION_SPIKE
\* or DURATION_DROP is reported for it.
C4_NoAnomalyForZeroStd ==
    (RecordInBaseline /\ RecordStats.std_dev.sq = 0) =>
        /\ pc = "zchecked" => anomaly = None
        /\ anomaly # None =>
              anomaly.anomaly_type \notin {"DURATION_SPIKE", "DURATION_DROP"}

C4_Witness ==
    /\ pc = "zchecked"
    /\ RecordInBaseline
    /\ RecordStats.std_dev.sq = 0
    /\ Deviation # 0
    /\ anomaly = None

\* C5: for a template of the baseline with std_dev > 0 the Z-score check
\* gives an anomaly iff |duration - mean| > threshold * std_dev (strictly);
\* it is a DURATION_SPIKE when duration > mean and a DURATION_DROP otherwise,
\* HIGH iff |duration - mean| > 5 * std_dev and MEDIUM otherwise. With mean
\* 100, std_dev 10 and threshold 3, duration 135 gives DURATION_SPIKE/MEDIUM
\* and duration 155 DURATION_SPIKE/HIGH.
C5_ZScoreVerdict ==
    (pc = "zchecked" /\ RecordInBaseline /\ RecordStats.std_dev.sq > 0) =>
        /\ anomaly # None <=> DeviatesMoreThan(z_score_threshold)
        /\ anomaly # None =>
              /\ anomaly.anomaly_type
                    = IF Deviation > 0 THEN "DURATION_SPIKE" ELSE "DURATION_DROP"
              /\ anomaly.severity
                    = IF DeviatesMoreThan(5) THEN "HIGH" ELSE "MEDIUM"
        /\ (Mean100Std10 /\ z_score_threshold = 3 /\ RecordDuration = 135) =>
              /\ anomaly # None
              /\ anomaly.anomaly_type = "DURATION_SPIKE"
              /\ anomaly.severity = "MEDIUM"
        /\ (Mean100Std10 /\ z_score_threshold = 3 /\ RecordDuration = 155) =>
              /\ anomaly # None
              /\ anomaly.anomaly_type = "DURATION_SPIKE"
              /\ anomaly.severity = "HIGH"

C5_Witness ==
    /\ pc = "zchecked"
    /\ RecordInBaseline
    /\ Mean100Std10
    /\ z_score_threshold = 3
    /\ RecordDuration = 135
    /\ anomaly # None
    /\ anomaly.anomaly_type = "DURATION_SPIKE"
    /\ anomaly.severity = "MEDIUM"

\* C6: a record with a non-empty message whose template is not in the
\* baseline gives a NEW_PATTERN anomaly of severity MEDIUM without z-score,
\* whatever its duration and whether or not the outlier model is on.
C6_NewPattern ==
    RecordNotInBaseline =>
        /\ anomaly # None
        /\ anomaly.anomaly_type = "NEW_PATTERN"
        /\ anomaly.severity = "MEDIUM"
        /\ anomaly.z_score = None

C6_Witness ==
    /\ pc = "checked"
    /\ RecordNotInBaseline
    /\ baseline_stats # EmptyDict
    /\ use_isolation_forest
    /\ iso_forest_model # None
    /\ iso_forest_model.is_trained
    /\ anomaly # None
    /\ anomaly.anomaly_type = "NEW_PATTERN"

(***************************************************************************)
(* Claims about extract_template (checked under SpecTemplate).             *)
(***************************************************************************)

\* the positions of t where the characters of tok stand
TokenStarts(t, tok) ==
    {i \in 1 .. (Len(t) - Len(tok) + 1) : SubSeq(t, i, i + Len(tok) - 1) = tok}

\* A word-boundary-delimited integer run, found by cutting the message into
\* words (maximal runs of \w characters): a word made of digits only.
WordEnd(m, a) == a - 1 + SetMin({k \in 0 .. Len(m) : ~WordAt(m, a + k)})

IntegerWordStarts(m) ==
    {a \in 1 .. Len(m) :
        /\ IsWord(m[a])
        /\ a = 1 \/ ~IsWord(m[a - 1])
        /\ \A j \in a .. WordEnd(m, a) : IsDigit(m[j])}

\* the message with each of its integer words replaced by {num}
RECURSIVE SkeletonFrom(_, _, _)
SkeletonFrom(m, S, i) ==
    LET later == {a \in S : a >= i}
    IN  IF later = {} THEN SubSeq(m, i, Len(m))
        ELSE LET a == SetMin(later)
             IN  SubSeq(m, i, a - 1) \o NumToken
                     \o SkeletonFrom(m, S, WordEnd(m, a) + 1)

Skeleton(m) == SkeletonFrom(m, IntegerWordStarts(m), 1)

User123LoggedIn == PieceUser \o Piece123 \o PieceLoggedIn

User456LoggedIn == PieceUser \o Piece456 \o PieceLoggedIn

UserNumLoggedIn == PieceUser \o NumToken \o PieceLoggedIn

\* C1: template extraction is idempotent: extracting the template of a
\* template gives the same template.
C1_Idempotent == pc = "reextracted" => retemplate = template

C8_EveryUuidReplaced ==
    pc # "build" =>
        Cardinality(TokenStarts(template, UuidToken))
            = Cardinality({i \in 1 .. Len(message) : MatchUuid(message, i) > 0})

\* C9: every substring of the message shaped like YYYY-MM-DDTHH:MM:SS is
\* replaced by {timestamp}.
C9_EveryTimestampReplaced ==
    pc # "build" =>
        Cardinality(TokenStarts(template, TimestampToken))
            = Cardinality({i \in 1 .. Len(message) :
                              MatchTimestamp(message, i) > 0})

\* C10: every dotted-quad IPv4 address of the message is replaced by {ip},
\* not by four {num} separated by dots.
C10_EveryIpReplaced ==
    pc # "build" =>
        Cardinality(TokenStarts(template, IpToken))
            = Cardinality({i \in 1 .. Len(message) : MatchIp(message, i) > 0})

(***************************************************************************)
(* Claims about the contexts detect_anomalies attaches (checked under      *)
(* SpecStream).  After an iteration of the loop, `record` is the record    *)
(* it handled, at position idx - 1, and `anomaly` is the anomaly it        *)
(* appended, or None.                                                      *)
(***************************************************************************)
Handled == pc \in {"loop", "returned"} /\ idx > 0

\* the records of the whole input that carry the session id of `rec`
SessionMembers(rec) ==
    {p \in 0 .. Len(records) - 1 :
        /\ HasSession(RecordAt(records, p))
        /\ RecordAt(records, p)[session_id_field] = rec[session_id_field]}

\* the members of a list of references
Members(refs) == {refs[k] : k \in 1 .. Len(refs)}

C12_WindowContext ==
    (Handled /\ anomaly # None /\ ~HasSession(record)) =>
        /\ anomaly.context.context_type = "WINDOW_BASED"
        /\ Len(anomaly.context.previous_logs) <= 10
        /\ \A p \in Members(anomaly.context.previous_logs) : p < idx - 1
        /\ anomaly.context.current_log = idx - 1

C12_Witness ==
    /\ Handled
    /\ anomaly # None
    /\ ~HasSession(record)
    /\ idx - 1 > 10
    /\ anomaly.context.context_type = "WINDOW_BASED"
    /\ Len(anomaly.context.previous_logs) = 10

FullSessionFields ==
    {"session_id", "session_logs", "anomaly_position", "session_start",
     "session_end", "total_logs_in_session", "context_type"}

WindowFields ==
    {"previous_logs", "current_log", "next_logs", "position", "context_type"}

\* C13: every anomaly of the returned list carries exactly one context,
\* whose type is FULL_SESSION or WINDOW_BASED, with the fields of that type
\* and none of the other.
C13_ExactlyOneContext ==
    \A k \in 1 .. Len(anomalies) :
        /\ "context" \in DOMAIN anomalies[k]
        /\ LET ctx == anomalies[k].context
           IN  \/ /\ ctx.context_type = "FULL_SESSION"
                  /\ DOMAIN ctx = FullSessionFields
               \/ /\ ctx.context_type = "WINDOW_BASED"
                  /\ DOMAIN ctx = WindowFields

C13_Witness ==
    /\ pc = "returned"
    /\ \E j, k \in 1 .. Len(anomalies) :
          /\ anomalies[j].context.context_type = "FULL_SESSION"
          /\ anomalies[k].context.context_type = "WINDOW_BASED"

\* what the Z-score check says of the record just handled
ZVerdict ==
    check_record_for_anomaly(record, baseline_stats, z_score_threshold)

\* what the outlier model says of the record just handled
ForestVerdict ==
    forest_anomaly(record, baseline_stats, use_isolation_forest,
                   iso_forest_model, iso_outputs)

\* an anomaly without its context
Bare(anom) == [f \in DOMAIN anom \ {"context"} |-> anom[f]]

\* C14: when the Z-score check reports the record, the anomaly of the output
\* is the Z-score one, also when the outlier model reports it too; an
\* ISOLATION_FOREST_ANOMALY appears only when the Z-score check returned
\* nothing; a record adds at most one anomaly to the output.
C14_ZScoreFirst ==
    /\ [](Handled =>
            LET z == ZVerdict
            IN  /\ (z # None) => (anomaly # None /\ Bare(anomaly) = z)
                /\ (anomaly # None
                      /\ anomaly.anomaly_type = "ISOLATION_FOREST_ANOMALY") =>
                      z = None
                /\ (z = None /\ ForestVerdict = None) => anomaly = None
                /\ Len(anomalies) <= idx)
    /\ [][Len(anomalies') <= Len(anomalies) + 1]_vars

C14_Witness ==
    /\ Handled
    /\ ZVerdict # None
    /\ ForestVerdict # None
    /\ anomaly.anomaly_type = "DURATION_SPIKE"

(***************************************************************************)
(* Claims about persistence (checked under SpecStore).  last_op is the     *)
(* operation applied last and prev_op the one before it.                   *)
(***************************************************************************)
LastIs(name) == last_op # None /\ last_op.op = name

PrevIs(name) == prev_op # None /\ prev_op.op = name

C16_UntrainedAfterMissingFile ==
    /\ (LastIs("load_model") /\ ~last_op.found) =>
          ~analyzers[last_op.analyzer].is_trained
    /\ (LastIs("load_baseline_stats") /\ ~last_op.found) =>
          loaded = EmptyDict

\* C17: after save_model(p) on an analyzer M followed by load_model(p) on
\* another, fresh analyzer, the fresh analyzer's is_trained equals M's,
\* whatever was saved to p before.
C17_TrainedFlagRoundTrip ==
    (/\ LastIs("load_model")
     /\ PrevIs("save_model")
     /\ last_op.path = prev_op.path
     /\ last_op.was_fresh
     /\ last_op.analyzer # prev_op.analyzer) =>
        /\ prev_op.is_trained = analyzers[prev_op.analyzer].is_trained
        /\ analyzers[last_op.analyzer].is_trained = prev_op.is_trained

\* C18: after train_on_baseline with fewer than 10 templates the analyzer is
\* untrained, also when it was trained or loaded before; with 10 or more it
\* is trained.
C18_TrainedIffTenTemplates ==
    LastIs("train_on_baseline") =>
        (analyzers[last_op.analyzer].is_trained
            <=> last_op.templates >= 10)

(***************************************************************************)
(* Claims about the input source.                                          *)
(***************************************************************************)

\* C19: when no file exists at log_file_path, calculate_baseline_stats
\* returns the empty mapping and detect_anomalies returns the empty list;
\* neither raises (checked under SpecStream).
C19_MissingInput ==
    log_file = "missing" =>
        /\ pc \in {"open", "no_baseline", "returned"}
        /\ stats = EmptyDict
        /\ anomalies = <<>>
        /\ records = <<>>

C19_Witness ==
    /\ log_file = "missing"
    /\ pc = "returned"
    /\ stats = EmptyDict
    /\ anomalies = <<>>

\* C20: in the line-by-line parse a line that does not hold a single JSON
\* object, a line holding a number or an array included, is skipped: it
\* never makes calculate_baseline_stats raise, and the lines after it are
\* still read (checked under SpecBaseline).
C20_BadLinesSkipped ==
    log_file = "lines" => pc \in {"train", "trained"}

(***************************************************************************)
(* Claims about record shapes (checked under SpecDetect).                  *)
(***************************************************************************)

\* C21: for every record shape (duration absent, a str, None, a Decimal;
\* level, timestamp or session id absent) the Z-score check and the
\* outlier-model check complete and return an anomaly or nothing: neither
\* raises.
C21_DetectorsNeverRaise == pc # "raised"

(***************************************************************************)
(* Claims about the commander (checked under SpecCommander, and under      *)
(* SpecCommanderFair where completion is claimed).                         *)
(***************************************************************************)

\* the place of a status in the reasoning loop
StatusRank(status) ==
    CASE status = "detected" -> 1
      [] status = "planning" -> 2
      [] status = "investigating" -> 3
      [] status = "deciding" -> 4
      [] status = "acting" -> 5
      [] status \in {"resolved", "escalated"} -> 6

\* coroutine h reached this position and its investigation has this status
StatusAt(h, position, status) ==
    tasks[h].pc = position => investigations[h].status = status

\* C22: the status of an investigation is 'detected' after detect,
\* 'planning' after plan, 'investigating' after investigate, 'deciding'
\* after decide and 'resolved' or 'escalated' after act, never 'acting';
\* no step moves the status of an investigation backwards.
C22_StatusFollowsLoop ==
    /\ [](\A h \in Handlers :
            /\ StatusAt(h, "detected", "detected")
            /\ StatusAt(h, "planned", "planning")
            /\ StatusAt(h, "investigated", "investigating")
            /\ StatusAt(h, "decided", "deciding")
            /\ tasks[h].pc \in {"acted", "reported"} =>
                  investigations[h].status \in {"resolved", "escalated"})
    /\ [][\A h \in Handlers :
            investigations[h] # None =>
                StatusRank(investigations'[h].status)
                    >= StatusRank(investigations[h].status)]_vars

C22_Witness ==
    /\ tasks["h1"].pc = "acted"
    /\ investigations["h1"].status = "resolved"
    /\ tasks["h2"].pc = "acted"
    /\ investigations["h2"].status = "escalated"

\* the word ESCALATE occurs in the text of an action
IsEscalation(action) ==
    action.verb = "ESCALATE" \/ action.object = "ESCALATE-desk"

\* the positions of the ESCALATE actions in a list of actions
Escalations(actions) ==
    {k \in 1 .. Len(actions) : IsEscalation(actions[k])}

\* C23: after act the status is 'escalated' if and only if the executed
\* actions contain an ESCALATE action, and 'resolved' with resolved_at set
\* otherwise; an ESCALATE action is the last action executed.
C23_EscalatedIffEscalateAction ==
    \A h \in Handlers :
        tasks[h].pc \in {"acted", "reported"} =>
            LET inv == investigations[h]
                found == Escalations(inv.actions_taken)
            IN  /\ inv.status = "escalated" <=> found # {}
                /\ inv.status # "escalated" =>
                      (inv.status = "resolved" /\ inv.resolved_at # NoneText)
                /\ found \subseteq {Len(inv.actions_taken)}

C23_Witness ==
    \E h \in Handlers :
        /\ tasks[h].pc = "acted"
        /\ investigations[h].status = "escalated"
        /\ Len(investigations[h].actions_taken) = 1
        /\ investigations[h].actions_taken[1].verb = "MONITOR"

\* the report of coroutine h holds what its own alert leads to
ReportIsOwn(h) ==
    LET alert == tasks[h].alert
        findings == agent_findings(alert, tasks[h].suspicious)
        root_cause == synthesize_root_cause(findings)
        actions == determine_actions(
                       [alert |-> alert, findings |-> findings], root_cause)
        taken == reports[h].actions_taken
    IN  /\ reports[h].incident_id = alert.id
        /\ reports[h].service = alert.service
        /\ reports[h].severity = alert.severity
        /\ reports[h].root_cause = root_cause
        /\ reports[h].findings = findings
        /\ Len(taken) >= 1
        /\ taken = SubSeq(actions, 1, Len(taken))
        /\ (Len(taken) < Len(actions)) => IsEscalation(taken[Len(taken)])
        /\ reports[h].status = IF IsEscalation(taken[Len(taken)])
                               THEN "escalated" ELSE "resolved"

\* C24: when one commander runs several handle_alert coroutines
\* interleaved, every one of them completes and returns a report, whose
\* incident_id is its alert's id and whose status, root cause and actions
\* come from its own investigation, not from another alert's, also when
\* two alerts carry the same id.
C24_ConcurrentAlertsIsolated ==
    /\ [](\A h \in Handlers : tasks[h].pc = "reported" => ReportIsOwn(h))
    /\ <>(\A h \in Handlers : tasks[h].pc = "reported")

C24_Witness ==
    /\ \A h \in Handlers : tasks[h].pc = "reported"
    /\ tasks["h1"].alert.id = tasks["h2"].alert.id
    /\ reports["h1"].status = "resolved"
    /\ reports["h2"].status = "escalated"

(***************************************************************************)
(* Further claims about detect_anomalies (checked under SpecStream).       *)
(***************************************************************************)

\* the timestamp of the record a reference points to
TimestampAt(p) == Get(RecordAt(records, p), "timestamp", None)

\* C25: in a FULL_SESSION context anomaly_position is the index in the
\* session list of the anomalous record itself, also when the session holds
\* several records with identical field values; session_start and
\* session_end are the timestamps of the first and last record of the
\* session in stream order.
C25_AnomalyPosition ==
    (Handled /\ anomaly # None /\ HasSession(record)) =>
        LET context == anomaly.context
            members == SessionMembers(record)
        IN  /\ context.anomaly_position \in 0 .. Len(context.session_logs) - 1
            /\ context.session_logs[context.anomaly_position + 1] = idx - 1
            /\ context.session_start = TimestampAt(SetMin(members))
            /\ context.session_end = TimestampAt(SetMax(members))

\* the references to the records at positions first .. last, in order
Range(first, last) == [k \in 1 .. (last - first + 1) |-> first + k - 1]

\* C26: for a WINDOW_BASED anomaly at stream position i, previous_logs is
\* exactly the records at positions max(0, i-10) .. i-1 in stream order,
\* next_logs is exactly the records at positions i+1 .. min(n-1, i+10),
\* and position equals i.
C26_WindowBounds ==
    (/\ Handled
     /\ anomaly # None
     /\ anomaly.context.context_type = "WINDOW_BASED") =>
        LET i == idx - 1
            n == Len(records)
        IN  /\ anomaly.context.previous_logs
                  = Range(IF i - 10 > 0 THEN i - 10 ELSE 0, i - 1)
            /\ anomaly.context.next_logs
                  = Range(i + 1, IF n - 1 < i + 10 THEN n - 1 ELSE i + 10)
            /\ anomaly.context.position = i

C26_Witness ==
    /\ Handled
    /\ anomaly # None
    /\ anomaly.context.context_type = "WINDOW_BASED"
    /\ idx - 1 = 0
    /\ Len(records) > 11
    /\ Len(anomaly.context.next_logs) = 10
    /\ anomaly.context.previous_logs = <<>>

\* the outlier model is disabled, not supplied, or not trained
ForestOff ==
    \/ ~use_isolation_forest
    \/ iso_forest_model = None
    \/ ~iso_forest_model.is_trained

\* what the Z-score check says of the record at a position
ZVerdictAt(p) ==
    check_record_for_anomaly(RecordAt(records, p), baseline_stats,
                             z_score_threshold)

\* the records handled so far that the Z-score check reports, in order
ZFlagged ==
    SelectSeq(SubSeq(Positions(records), 1, idx),
              LAMBDA p : ZVerdictAt(p) # None)

\* C28: detect_anomalies never outputs an ISOLATION_FOREST_ANOMALY when the
\* outlier model is disabled, not supplied, or not trained; its output is
\* then the output of the Z-score check alone.
C28_ForestGated ==
    (ForestOff /\ pc \in {"loop", "returned"}) =>
        LET flagged == ZFlagged
        IN  /\ \A k \in 1 .. Len(anomalies) :
                  anomalies[k].anomaly_type # "ISOLATION_FOREST_ANOMALY"
            /\ Len(anomalies) = Len(flagged)
            /\ \A k \in 1 .. Len(flagged) :
                  Bare(anomalies[k]) = ZVerdictAt(flagged[k])

C28_Witness ==
    /\ pc = "returned"
    /\ ~use_isolation_forest
    /\ iso_forest_model # None
    /\ iso_forest_model.is_trained
    /\ Len(records) > 2
    /\ Len(anomalies) = 1

\* the type and severity of an anomaly
Verdict(anom) ==
    [anomaly_type |-> anom.anomaly_type, severity |-> anom.severity]

\* what the Z-score check says of a record under the baseline and the
\* threshold detect_anomalies was called with
CalledVerdict(rec) ==
    check_record_for_anomaly(rec, StreamBaseline, DefaultThreshold)

\* the records handled so far that this check reports, in order
CalledFlagged ==
    SelectSeq(SubSeq(Positions(records), 1, idx),
              LAMBDA p : CalledVerdict(RecordAt(records, p)) # None)

\* the anomalies of the output that the Z-score check produced, in order
ZScoreOutput ==
    SelectSeq(anomalies,
              LAMBDA a : a.anomaly_type # "ISOLATION_FOREST_ANOMALY")

\* C29: detect_anomalies leaves the baseline mapping unchanged, and the
\* Z-score verdict for a record (flagged or not, anomaly type, severity)
\* depends only on that record, the baseline and the threshold, not on the
\* records processed before it or on their order.
C29_StatelessCheck ==
    /\ [](pc \in {"loop", "returned"} =>
            LET flagged == CalledFlagged
                output == ZScoreOutput
            IN  /\ baseline_stats = StreamBaseline
                /\ Len(output) = Len(flagged)
                /\ \A k \in 1 .. Len(flagged) :
                      Verdict(output[k])
                          = Verdict(CalledVerdict(
                                        RecordAt(records, flagged[k]))))
    /\ [][baseline_stats' = baseline_stats]_vars

C29_Witness ==
    /\ pc = "returned"
    /\ Len(records) > 2
    /\ records[Len(records) - 1] = records[Len(records)]
    /\ Len(ZScoreOutput) = 2
    /\ Verdict(anomalies[1]) = Verdict(anomalies[2])

(***************************************************************************)
(* Claims about the latency detector (checked under SpecTelemetry).        *)
(***************************************************************************)

\* the position of the last reset_detector call in the history, 0 if none
LastReset ==
    SetMax({0} \cup {k \in 1 .. Len(submitted) : submitted[k] = ResetMark})

\* the latencies submitted since the last reset (or since start); a metric
\* without latency_ms counts as 0
SinceReset ==
    [k \in 1 .. (Len(submitted) - LastReset) |->
        LET metric == submitted[LastReset + k]
        IN  IF "latency_ms" \in DOMAIN metric THEN metric.latency_ms ELSE 0]

\* C30: detect_incident returns True if and only if at least three metrics
\* were submitted since the last reset_detector (or since start) and the
\* three most recent of them all have latency_ms >= 700, a missing latency
\* counting as 0; after reset_detector the next two calls return False
\* whatever the latencies seen before the reset.
C30_SustainedBreach ==
    LET recent == SinceReset
        n == Len(recent)
    IN  n > 0 =>
            /\ returned <=> (/\ n >= 3
                             /\ \A k \in (n - 2) .. n : recent[k] >= 700)
            /\ (LastReset > 0 /\ n <= 2) => ~returned

C30_Witness ==
    /\ Len(submitted) = 5
    /\ submitted[1] = [latency_ms |-> 900]
    /\ submitted[2] = ResetMark
    /\ returned

(***************************************************************************)
(* Claims about the fallback to line-delimited parsing (checked under      *)
(* SpecFallback).  observed counts the records of the input per template.  *)
(***************************************************************************)

\* C27: when the array parse of the training input fails after some records
\* were yielded and the builder falls back to line-delimited parsing, the
\* accumulators are reset: each record of the input contributes at most
\* once to its template's duration list and count in the final baseline.
C27_FallbackResets ==
    pc = "trained" =>
        /\ \A tpl \in DOMAIN template_durations :
              Len(template_durations[tpl]) <= Get(observed, tpl, 0)
        /\ \A tpl \in DOMAIN template_counts :
              template_counts[tpl] <= Get(observed, tpl, 0)
        /\ \A tpl \in DOMAIN stats :
              stats[tpl].count <= Get(observed, tpl, 0)

====
